---- MODULE Spec2Model ----
(***************************************************************************)
(* A model of the odo interpreter pipeline (base lexer, base parser, base  *)
(* semantic analyzer, exec interpreter, native function binding).          *)
(*                                                                         *)
(* A source text, and every Rust String, is a sequence of one-character    *)
(* strings.  Uuid::new_v4() is modelled by a counter: every minted         *)
(* identity is fresh.  A Rust                                              *)
(* Result is a record with a tag "Ok" / "Err"; a panic (unwrap, expect,    *)
(* panic!, HashMap index on a missing key) is the tag "Panic", which       *)
(* propagates to the caller of eval and ends the process.                  *)
(***************************************************************************)
EXTENDS Integers, Sequences, FiniteSets, TLC

(***************************************************************************)
(* Characters                                                              *)
(***************************************************************************)
NL == "\n"
NoChar == ""
Letters ==
    {"a", "b", "c", "d", "e", "f", "g", "h", "i", "j", "k", "l", "m",
     "n", "o", "p", "q", "r", "s", "t", "u", "v", "w", "x", "y", "z"}
Digits == {"0", "1", "2", "3", "4", "5", "6", "7", "8", "9"}
WhiteSpace == {" ", "\t", "\r", NL}

is_alphabetic(c) == c \in Letters
is_numeric(c) == c \in Digits
is_whitespace(c) == c \in WhiteSpace

(***************************************************************************)
(* base/lexer.rs                                                           *)
(***************************************************************************)
Token(token_type, value, line, column) ==
    [token_type |-> token_type, value |-> value, line |-> line, column |-> column]

Lexer_new(code) ==
    [code |-> code, position |-> 0, current_line |-> 1, current_column |-> 0]

current_char(lx) ==
    IF lx.position < Len(lx.code) THEN lx.code[lx.position + 1] ELSE NoChar

advance(lx) ==
    LET l1 == [lx EXCEPT !.position = @ + 1, !.current_column = @ + 1]
    IN  IF current_char(l1) = NL
        THEN [l1 EXCEPT !.current_line = @ + 1, !.position = @ + 1,
                        !.current_column = 0]
        ELSE l1

RECURSIVE ignore_whitespace(_)
ignore_whitespace(lx) ==
    LET c == current_char(lx)
    IN  IF c = NoChar \/ ~is_whitespace(c) \/ c = NL
        THEN lx
        ELSE ignore_whitespace(advance(lx))

\* A Rust String is the sequence of its characters.
KEYWORDS ==
    [k \in {<<"v", "a", "r">>, <<"t", "r", "u", "e">>,
            <<"f", "a", "l", "s", "e">>, <<"i", "f">>} |->
        CASE k = <<"v", "a", "r">> -> "Var"
          [] k = <<"t", "r", "u", "e">> -> "Truth"
          [] k = <<"f", "a", "l", "s", "e">> -> "Truth"
          [] k = <<"i", "f">> -> "If"]

\* The two while-loops of Lexer::next that collect a name or a number.
RECURSIVE lex_name_run(_, _)
lex_name_run(lx, value) ==
    LET c == current_char(lx)
    IN  IF c = NoChar \/ ~is_alphabetic(c)
        THEN [lexer |-> lx, value |-> value]
        ELSE lex_name_run(advance(lx), Append(value, c))

RECURSIVE lex_number_run(_, _)
lex_number_run(lx, value) ==
    LET c == current_char(lx)
    IN  IF c = NoChar \/ ~is_numeric(c)
        THEN [lexer |-> lx, value |-> value]
        ELSE lex_number_run(advance(lx), Append(value, c))

escape ==
    [c \in {"\\", "n", "r", "t", "b", "a", "v", "'", "\"", "?"} |->
        CASE c = "\\" -> "\\"
          [] c = "n" -> NL
          [] c = "r" -> "\r"
          [] c = "t" -> "\t"
          [] c = "b" -> "<0x08>"
          [] c = "a" -> "<0x07>"
          [] c = "v" -> "<0x0B>"
          [] c = "'" -> "'"
          [] c = "\"" -> "\""
          [] c = "?" -> "?"]

\* None (end of input) is has |-> FALSE.
escape_char(lx) ==
    LET escapee == current_char(lx)
    IN  IF escapee = NoChar
        THEN [has |-> FALSE, lexer |-> lx, char |-> NoChar]
        ELSE [has |-> TRUE, lexer |-> advance(lx),
              char |-> IF escapee \in DOMAIN escape THEN escape[escapee]
                       ELSE escapee]

\* The while-loop of Lexer::text and its final found_end test.
RECURSIVE text_run(_, _)
text_run(lx, value) ==
    LET c == current_char(lx)
    IN  IF c = NoChar
        THEN [tag |-> "Err", lexer |-> lx, value |-> value]
        ELSE IF c = "\""
        THEN [tag |-> "Ok", lexer |-> advance(lx), value |-> value]
        ELSE IF c = "\\"
        THEN LET e == escape_char(advance(lx))
             IN  IF e.has
                 THEN text_run(e.lexer, Append(value, e.char))
                 ELSE [tag |-> "Err", lexer |-> e.lexer, value |-> value]
        ELSE text_run(advance(lx), Append(value, c))

text(lx) == text_run(lx, <<>>)

Punctuation ==
    [c \in {NL, "=", "{", "}", ";", ":"} |->
        CASE c = NL -> "NewLine"
          [] c = "=" -> "Assign"
          [] c = "{" -> "LeftCurly"
          [] c = "}" -> "RightCurly"
          [] c = ";" -> "SemiColon"
          [] c = ":" -> "DebugPrint"]

\* Iterator::next: tag "Some" with a token, "None", or "Panic".
Lexer_next(lx0) ==
    LET lx == ignore_whitespace(lx0)
        curr == current_char(lx)
        line == lx.current_line
        column == lx.current_column
    IN  IF curr = NoChar
        THEN [tag |-> "None", lexer |-> lx]
        ELSE IF is_alphabetic(curr)
        THEN LET r == lex_name_run(lx, <<>>)
             IN  [tag |-> "Some", lexer |-> r.lexer,
                  token |-> Token(IF r.value \in DOMAIN KEYWORDS
                                  THEN KEYWORDS[r.value] ELSE "Name",
                                  r.value, line, column)]
        ELSE IF is_numeric(curr)
        THEN LET r == lex_number_run(lx, <<>>)
             IN  [tag |-> "Some", lexer |-> r.lexer,
                  token |-> Token("Number", r.value, line, column)]
        ELSE IF curr = "\""
        THEN LET r == text(advance(lx))
             IN  IF r.tag = "Ok"
                 THEN [tag |-> "Some", lexer |-> r.lexer,
                       token |-> Token("Text", r.value, line, column)]
                 ELSE [tag |-> "None", lexer |-> r.lexer]
        ELSE IF curr \in DOMAIN Punctuation
        THEN [tag |-> "Some", lexer |-> advance(lx),
              token |-> Token(Punctuation[curr], <<curr>>, line, column)]
        ELSE [tag |-> "Panic", lexer |-> lx]

\* lexer.collect(): the tokens up to the first None; a panic aborts.
RECURSIVE collect_run(_, _)
collect_run(lx, tokens) ==
    LET r == Lexer_next(lx)
    IN  CASE r.tag = "Some" -> collect_run(r.lexer, Append(tokens, r.token))
          [] r.tag = "None" -> [tag |-> "Ok", tokens |-> tokens]
          [] r.tag = "Panic" -> [tag |-> "Panic", tokens |-> tokens]

collect(code) == collect_run(Lexer_new(code), <<>>)

(***************************************************************************)
(* base/parser.rs                                                          *)
(***************************************************************************)
\* An anyhow error: what kind it is and the two names or tokens it reports.
Error(kind, expected, got) == [kind |-> kind, expected |-> expected, got |-> got]

Ast_Block(nodes) == [kind |-> "Block", nodes |-> nodes]
Ast_Number(token) == [kind |-> "Number", token |-> token]
Ast_Truth(token) == [kind |-> "Truth", token |-> token]
Ast_Text(token) == [kind |-> "Text", token |-> token]
Ast_Variable(token) == [kind |-> "Variable", token |-> token]
Ast_Assignment(target, node) == [kind |-> "Assignment", target |-> target, node |-> node]
Ast_Declaration(token, node) == [kind |-> "Declaration", token |-> token, node |-> node]
Ast_FunctionCall(callee, args) == [kind |-> "FunctionCall", callee |-> callee, args |-> args]
Ast_If(condition, body) == [kind |-> "If", condition |-> condition, body |-> body]
Ast_DebugPrint(node) == [kind |-> "DebugPrint", node |-> node]

Parser_new(tokens) == [tokens |-> tokens, pos |-> 0]
has_peek(p) == p.pos < Len(p.tokens)
peek(p) == p.tokens[p.pos + 1]
tokens_next(p) == [p EXCEPT !.pos = @ + 1]

POk(p, node) == [tag |-> "Ok", parser |-> p, node |-> node]
PErr(p, error) == [tag |-> "Err", parser |-> p, error |-> error]
PPanic(p) == [tag |-> "Panic", parser |-> p]

consume(p, kind) ==
    IF ~has_peek(p)
    THEN PErr(p, Error("SuddenEndOfFile", "", ""))
    ELSE IF peek(p).token_type = kind
    THEN [tag |-> "Ok", parser |-> tokens_next(p), token |-> peek(p)]
    ELSE PErr(p, Error("UnexpectedToken", kind, peek(p).token_type))

next_is(p, kind) == has_peek(p) /\ peek(p).token_type = kind

RECURSIVE ignore_newline(_)
ignore_newline(p) ==
    IF next_is(p, "NewLine") THEN ignore_newline(tokens_next(p)) ELSE p

check_statement_terminator(p) ==
    IF ~has_peek(p)
    THEN [tag |-> "Ok", parser |-> p]
    ELSE IF peek(p).token_type = "SemiColon"
    THEN [tag |-> "Ok", parser |-> ignore_newline(tokens_next(p))]
    ELSE IF peek(p).token_type # "RightCurly"
    THEN LET c == consume(p, "NewLine")
         IN  IF c.tag = "Ok"
             THEN [tag |-> "Ok", parser |-> ignore_newline(c.parser)]
             ELSE c
    ELSE [tag |-> "Ok", parser |-> p]

parse_factor(p0) ==
    LET p == ignore_newline(p0)
    IN  IF ~has_peek(p)
        THEN PErr(p, Error("SuddenEndOfFile", "", ""))
        ELSE CASE peek(p).token_type = "Number" ->
                    POk(tokens_next(p), Ast_Number(peek(p)))
               [] peek(p).token_type = "Truth" ->
                    POk(tokens_next(p), Ast_Truth(peek(p)))
               [] peek(p).token_type = "Text" ->
                    POk(tokens_next(p), Ast_Text(peek(p)))
               [] peek(p).token_type = "Name" ->
                    POk(tokens_next(p), Ast_Variable(peek(p)))
               [] OTHER ->
                    PErr(p, Error("UnexpectedTokenInFactor", "", peek(p).token_type))

\* The mutually recursive parsing methods are the cases of one recursive
\* operator, parse_rule(rule, p, arg): rule names the method (or the loop
\* of a method), p is the parser and arg the method's other argument (the
\* nodes a loop has collected so far).
RECURSIVE parse_rule(_, _, _)

parse_statement(p) == parse_rule("parse_statement", p, <<>>)
parse_statement_without_terminator(p) ==
    parse_rule("parse_statement_without_terminator", p, <<>>)
parse_block(p) == parse_rule("parse_block", p, <<>>)
parse_block_run(p, nodes) == parse_rule("parse_block_run", p, nodes)
parse_declaration(p) == parse_rule("parse_declaration", p, <<>>)
parse_assignment(p, target_node) == parse_rule("parse_assignment", p, target_node)
parse_function_call(p, callee) == parse_rule("parse_function_call", p, callee)
parse_function_call_run(p, args) == parse_rule("parse_function_call_run", p, args)
parse_postfix(p) == parse_rule("parse_postfix", p, <<>>)
parse_postfix_run(p, expr) == parse_rule("parse_postfix_run", p, expr)
parse_if(p) == parse_rule("parse_if", p, <<>>)
statement_list_run(p, ast) == parse_rule("statement_list_run", p, ast)

parse_rule(rule, p, arg) ==
    CASE rule = "parse_statement" ->
            LET result == parse_statement_without_terminator(p)
            IN  IF result.tag # "Ok"
                THEN result
                ELSE LET t == check_statement_terminator(result.parser)
                     IN  IF t.tag # "Ok" THEN t ELSE POk(t.parser, result.node)
      [] rule = "parse_statement_without_terminator" ->
            LET p1 == ignore_newline(p)
            IN  IF ~has_peek(p1)
                THEN PPanic(p1)
                ELSE CASE peek(p1).token_type = "Var" -> parse_declaration(p1)
                       [] peek(p1).token_type = "LeftCurly" -> parse_block(p1)
                       [] peek(p1).token_type = "If" -> parse_if(p1)
                       [] peek(p1).token_type = "DebugPrint" ->
                            LET expr == parse_postfix(tokens_next(p1))
                            IN  IF expr.tag # "Ok"
                                THEN expr
                                ELSE POk(expr.parser, Ast_DebugPrint(expr.node))
                       [] OTHER -> parse_postfix(p1)
      \* The while-loop of parse_block; arg is the nodes collected so far.
      [] rule = "parse_block_run" ->
            IF ~has_peek(p) \/ peek(p).token_type = "RightCurly"
            THEN [tag |-> "Ok", parser |-> p, nodes |-> arg]
            ELSE LET r == parse_statement(p)
                 IN  IF r.tag # "Ok"
                     THEN r
                     ELSE parse_block_run(r.parser, Append(arg, r.node))
      [] rule = "parse_block" ->
            LET open == consume(p, "LeftCurly")
            IN  IF open.tag # "Ok"
                THEN open
                ELSE LET body == parse_block_run(ignore_newline(open.parser), <<>>)
                     IN  IF body.tag # "Ok"
                         THEN body
                         ELSE LET close == consume(body.parser, "RightCurly")
                              IN  IF close.tag # "Ok"
                                  THEN close
                                  ELSE POk(close.parser, Ast_Block(body.nodes))
      [] rule = "parse_declaration" ->
            LET var == consume(p, "Var")
            IN  IF var.tag # "Ok"
                THEN var
                ELSE LET name == consume(ignore_newline(var.parser), "Name")
                     IN  IF name.tag # "Ok"
                         THEN name
                         ELSE LET assign == consume(name.parser, "Assign")
                              IN  IF assign.tag # "Ok"
                                  THEN assign
                                  ELSE LET expr == parse_postfix(assign.parser)
                                       IN  IF expr.tag # "Ok"
                                           THEN expr
                                           ELSE POk(expr.parser,
                                                    Ast_Declaration(name.token,
                                                                    expr.node))
      \* arg is the target node.
      [] rule = "parse_assignment" ->
            LET assign == consume(ignore_newline(p), "Assign")
            IN  IF assign.tag # "Ok"
                THEN assign
                ELSE LET expr == parse_postfix(assign.parser)
                     IN  IF expr.tag # "Ok"
                         THEN expr
                         ELSE POk(expr.parser, Ast_Assignment(arg, expr.node))
      \* The loop of parse_function_call; arg is the arguments so far.
      [] rule = "parse_function_call_run" ->
            IF ~has_peek(p) \/ peek(p).token_type = "RightParen"
            THEN [tag |-> "Ok", parser |-> p, nodes |-> arg]
            ELSE LET a == parse_postfix(p)
                 IN  IF a.tag # "Ok"
                     THEN a
                     ELSE LET p1 == ignore_newline(a.parser)
                              args1 == Append(arg, a.node)
                          IN  IF next_is(p1, "Comma")
                              THEN parse_function_call_run(tokens_next(p1), args1)
                              ELSE [tag |-> "Ok", parser |-> p1, nodes |-> args1]
      \* arg is the callee node.
      [] rule = "parse_function_call" ->
            LET open == consume(ignore_newline(p), "LeftParen")
            IN  IF open.tag # "Ok"
                THEN open
                ELSE LET args == parse_function_call_run(ignore_newline(open.parser),
                                                         <<>>)
                     IN  IF args.tag # "Ok"
                         THEN args
                         ELSE LET close == consume(args.parser, "RightParen")
                              IN  IF close.tag # "Ok"
                                  THEN close
                                  ELSE POk(close.parser,
                                           Ast_FunctionCall(arg, args.nodes))
      \* The while-loop of parse_postfix; arg is the expression so far.
      [] rule = "parse_postfix_run" ->
            IF ~has_peek(p)
            THEN POk(p, arg)
            ELSE CASE peek(p).token_type = "Assign" ->
                        LET r == parse_assignment(p, arg)
                        IN  IF r.tag # "Ok"
                            THEN r
                            ELSE parse_postfix_run(r.parser, r.node)
                   [] peek(p).token_type = "LeftParen" ->
                        LET r == parse_function_call(p, arg)
                        IN  IF r.tag # "Ok"
                            THEN r
                            ELSE parse_postfix_run(r.parser, r.node)
                   [] OTHER -> POk(p, arg)
      [] rule = "parse_postfix" ->
            LET expr == parse_factor(p)
            IN  IF expr.tag # "Ok"
                THEN expr
                ELSE parse_postfix_run(ignore_newline(expr.parser), expr.node)
      [] rule = "parse_if" ->
            LET if == consume(p, "If")
            IN  IF if.tag # "Ok"
                THEN if
                ELSE LET condition == parse_postfix(if.parser)
                     IN  IF condition.tag # "Ok"
                         THEN condition
                         ELSE LET body == parse_statement(condition.parser)
                              IN  IF body.tag # "Ok"
                                  THEN body
                                  ELSE POk(body.parser,
                                           Ast_If(condition.node, body.node))
      \* The while-loop of statement_list; arg is the statements so far.
      [] rule = "statement_list_run" ->
            IF ~has_peek(p) \/ peek(p).token_type = "RightCurly"
            THEN [tag |-> "Ok", parser |-> p, nodes |-> arg]
            ELSE LET r == parse_statement(p)
                 IN  IF r.tag # "Ok"
                     THEN r
                     ELSE statement_list_run(r.parser, Append(arg, r.node))

statement_list(p0) ==
    LET p == ignore_newline(p0)
        close == consume(p, "RightCurly")
    IN  IF close.tag = "Ok"
        THEN [tag |-> "Ok", parser |-> close.parser, nodes |-> <<>>]
        ELSE statement_list_run(p, <<>>)

(***************************************************************************)
(* base/semantic_analyzer.rs                                               *)
(***************************************************************************)
\* Option<Uuid>::None; no minted identity is 0.
NoUuid == 0

Variant(kind, type_id, return_id, argument_ids) ==
    [kind |-> kind, type_id |-> type_id, return_id |-> return_id,
     argument_ids |-> argument_ids]
Primitive == Variant("Primitive", NoUuid, NoUuid, <<>>)
VariableSymbol(type_id) == Variant("Variable", type_id, NoUuid, <<>>)
FunctionTypeSymbol_new(return_id, argument_ids) ==
    Variant("FunctionType", NoUuid, return_id, argument_ids)
NativeFunctionSymbol_new(type_id) == Variant("NativeFunction", type_id, NoUuid, <<>>)

Symbol(name, symbol_id, variant) ==
    [name |-> name, symbol_id |-> symbol_id, variant |-> variant]
\* Option<&Symbol>::None
NoSymbol == Symbol(<<>>, NoUuid, Primitive)

\* The lazy statics: each has the identity Symbol::new minted for it.
INT_TYPE == Symbol(<<"i", "n", "t">>, 1, Primitive)
DEC_TYPE == Symbol(<<"d", "e", "c">>, 2, Primitive)
TEXT_TYPE == Symbol(<<"s", "t", "r", "i", "n", "g">>, 3, Primitive)
TRUTH_TYPE == Symbol(<<"t", "r", "u", "t", "h">>, 4, Primitive)

NoSymbols == [id \in {} |-> NoSymbol]

SymbolTable_new(name, table_id) ==
    [name |-> name, table_id |-> table_id, parent |-> NoUuid, symbols |-> NoSymbols]

SymbolTable_insert(table, symbol) ==
    [table EXCEPT !.symbols = (symbol.symbol_id :> symbol) @@ @]

\* Lookup by name: the first symbol of that name the iteration meets.
SymbolTable_lookup(table, name) ==
    LET found == {id \in DOMAIN table.symbols : table.symbols[id].name = name}
    IN  IF found = {}
        THEN NoSymbol
        ELSE table.symbols[CHOOSE id \in found : \A other \in found : id <= other]

lookup_id(table, id) ==
    IF id \in DOMAIN table.symbols THEN table.symbols[id] ELSE NoSymbol

\* The analyzer and the interpreter that owns it, after construction: the
\* four statics hold identities 1..4, the two tables the next two.
SemanticAnalyzer_new ==
    LET global_table ==
            SymbolTable_insert(SymbolTable_insert(SymbolTable_insert(
                SymbolTable_insert(SymbolTable_new("global_table", 5), INT_TYPE),
                DEC_TYPE), TEXT_TYPE), TRUTH_TYPE)
        repl_scope == [SymbolTable_new("repl_scope", 6) EXCEPT !.parent = 5]
    IN  [scopes |-> (5 :> global_table) @@ (6 :> repl_scope),
         current_scope_id |-> 5,
         repl_scope_id |-> 6,
         global_scope_id |-> 5,
         uuid |-> 6]

\* Uuid::new_v4(): a fresh identity.
new_v4(m) == m.uuid + 1
minted(m) == [m EXCEPT !.uuid = @ + 1]

global_scope(m) == m.scopes[m.global_scope_id]
current_scope(m) == m.scopes[m.current_scope_id]

push_scope(m, scope_id) == [m EXCEPT !.current_scope_id = scope_id]

\* A pop that leaves the scope of the block current.
pop_scope_stays(m) ==
    IF current_scope(m).parent = NoUuid
    THEN [tag |-> "Panic", m |-> m]
    ELSE [tag |-> "Ok", m |-> m]

\* tag "Panic" when the current scope has no parent.
pop_scope(m) ==
    IF current_scope(m).parent = NoUuid
    THEN [tag |-> "Panic", m |-> m]
    ELSE [tag |-> "Ok", m |-> [m EXCEPT !.current_scope_id = current_scope(m).parent]]

has_parent_scope(table, m) == table.parent # NoUuid /\ table.parent \in DOMAIN m.scopes
parent_scope(table, m) == m.scopes[table.parent]

\* SymbolTable::symbol_from_node: tag "Err" for a node that is no Variable.
RECURSIVE symbol_from_node(_, _, _)
symbol_from_node(table, node, m) ==
    IF node.kind # "Variable"
    THEN [tag |-> "Err", error |-> Error("ExpectedVariable", <<>>, <<>>)]
    ELSE LET result == SymbolTable_lookup(table, node.token.value)
         IN  IF result # NoSymbol
             THEN [tag |-> "Ok", symbol |-> result]
             ELSE IF has_parent_scope(table, m)
             THEN symbol_from_node(parent_scope(table, m), node, m)
             ELSE [tag |-> "Ok", symbol |-> NoSymbol]

RECURSIVE symbol_from_id(_, _, _)
symbol_from_id(table, id, m) ==
    IF lookup_id(table, id) # NoSymbol
    THEN lookup_id(table, id)
    ELSE IF has_parent_scope(table, m)
    THEN symbol_from_id(parent_scope(table, m), id, m)
    ELSE NoSymbol

UnknownName == <<"<", "u", "n", "k", "n", "o", "w", "n", ">">>

\* SymbolTable::name_of_type with the callers' unwrap_or("<unknown>").
RECURSIVE name_of_type(_, _, _)
name_of_type(table, id, m) ==
    IF lookup_id(table, id) # NoSymbol
    THEN lookup_id(table, id).name
    ELSE IF has_parent_scope(table, m)
    THEN name_of_type(parent_scope(table, m), id, m)
    ELSE UnknownName

Sem_Block(nodes, scope_id) == [kind |-> "Block", nodes |-> nodes, scope_id |-> scope_id]
Sem_Number(token) == [kind |-> "Number", token |-> token]
Sem_Truth(token) == [kind |-> "Truth", token |-> token]
Sem_Text(token) == [kind |-> "Text", token |-> token]
Sem_Variable(symbol_id) == [kind |-> "Variable", symbol_id |-> symbol_id]
Sem_Declaration(symbol_id, id2, node) ==
    [kind |-> "Declaration", symbol_id |-> symbol_id, id2 |-> id2, node |-> node]
Sem_Assignment(symbol_id, node) ==
    [kind |-> "Assignment", symbol_id |-> symbol_id, node |-> node]
Sem_FunctionCall(callee, args) == [kind |-> "FunctionCall", callee |-> callee, args |-> args]
Sem_If(condition, body) == [kind |-> "If", condition |-> condition, body |-> body]
Sem_DebugPrint(node) == [kind |-> "DebugPrint", node |-> node]

\* SemanticResult, or the error, or a panic; m is the state left behind.
AOk(m, node, type_id) == [tag |-> "Ok", m |-> m, node |-> node, type_id |-> type_id]
AErr(m, error) == [tag |-> "Err", m |-> m, error |-> error]
APanic(m) == [tag |-> "Panic", m |-> m]

\* A declaration that looks for no earlier symbol of the name.
never_declared(m, token) == FALSE

\* The declaration's test "has the variable already been declared".
already_declared(m, token) ==
    symbol_from_node(current_scope(m), Ast_Variable(token), m).symbol # NoSymbol

\* An assignment that takes a value of any type.
any_type(value_type_id, type_id) == value_type_id # NoUuid

\* The assignment's test that the value has the type of the variable.
same_type(value_type_id, type_id) == value_type_id = type_id

\* A conditional that takes a condition of any type.
any_condition_type(condition_type) == condition_type # NoUuid

\* A test that takes a condition of any primitive type.
is_primitive_type(condition_type) ==
    condition_type \in {INT_TYPE.symbol_id, DEC_TYPE.symbol_id,
                        TEXT_TYPE.symbol_id, TRUTH_TYPE.symbol_id}

\* The conditional's test that the condition is a truth.
is_truth_type(condition_type) == condition_type = TRUTH_TYPE.symbol_id

\* A block scope that is given no parent.
block_scope_unparented(m, id) == SymbolTable_new("block", id)

\* The scope the Block case creates: a child of the current scope.
block_scope(m, id) == [SymbolTable_new("block", id) EXCEPT !.parent = m.current_scope_id]

RECURSIVE analyze_node(_, _)
RECURSIVE analyze_block_run(_, _, _)
RECURSIVE analyze_args_run(_, _, _, _)

\* The for-loop of the Block case.
analyze_block_run(m, nodes, semantic_nodes) ==
    IF nodes = <<>>
    THEN [tag |-> "Ok", m |-> m, nodes |-> semantic_nodes]
    ELSE LET r == analyze_node(m, Head(nodes))
         IN  IF r.tag # "Ok"
             THEN r
             ELSE analyze_block_run(r.m, Tail(nodes), Append(semantic_nodes, r.node))

\* A loop over the arguments that does not compare their types.
RECURSIVE analyze_args_unchecked(_, _, _, _)
analyze_args_unchecked(m, args, argument_ids, arg_nodes) ==
    IF Len(arg_nodes) = Len(args)
    THEN [tag |-> "Ok", m |-> m, nodes |-> arg_nodes]
    ELSE LET r == analyze_node(m, args[Len(arg_nodes) + 1])
         IN  IF r.tag # "Ok"
             THEN r
             ELSE analyze_args_unchecked(r.m, args, argument_ids,
                                         Append(arg_nodes, r.node))

\* The for-loop of the FunctionCall case over the arguments from i on.
analyze_args_run(m, args, argument_ids, arg_nodes) ==
    IF Len(arg_nodes) = Len(args)
    THEN [tag |-> "Ok", m |-> m, nodes |-> arg_nodes]
    ELSE LET i == Len(arg_nodes) + 1
             r == analyze_node(m, args[i])
         IN  IF r.tag # "Ok"
             THEN r
             ELSE IF r.type_id = NoUuid
             THEN AErr(r.m, Error("ArgumentNotExpression", <<>>, <<>>))
             ELSE IF r.type_id # argument_ids[i]
             THEN AErr(r.m, Error("TypeMismatch",
                                  name_of_type(current_scope(r.m), argument_ids[i], r.m),
                                  name_of_type(current_scope(r.m), r.type_id, r.m)))
             ELSE analyze_args_run(r.m, args, argument_ids, Append(arg_nodes, r.node))

analyze_node(m, ast) ==
    CASE ast.kind = "Block" ->
            LET id == new_v4(m)
                scope == block_scope(m, id)
                m1 == push_scope([minted(m) EXCEPT !.scopes = (id :> scope) @@ @], id)
                body == analyze_block_run(m1, ast.nodes, <<>>)
            IN  IF body.tag # "Ok"
                THEN body
                ELSE LET popped == pop_scope(body.m)
                     IN  IF popped.tag # "Ok"
                         THEN APanic(popped.m)
                         ELSE AOk(popped.m, Sem_Block(body.nodes, id), NoUuid)
      [] ast.kind = "Number" -> AOk(m, Sem_Number(ast.token), INT_TYPE.symbol_id)
      [] ast.kind = "Truth" -> AOk(m, Sem_Truth(ast.token), TRUTH_TYPE.symbol_id)
      [] ast.kind = "Text" -> AOk(m, Sem_Text(ast.token), TEXT_TYPE.symbol_id)
      [] ast.kind = "Variable" ->
            LET symbol == symbol_from_node(current_scope(m), ast, m).symbol
            IN  IF symbol = NoSymbol
                THEN AErr(m, Error("VariableNotFound", ast.token.value, <<>>))
                ELSE IF symbol.variant.kind \in {"Variable", "NativeFunction"}
                THEN AOk(m, Sem_Variable(symbol.symbol_id), symbol.variant.type_id)
                ELSE APanic(m)
      [] ast.kind = "Declaration" ->
            LET result_node == analyze_node(m, ast.node)
            IN  IF result_node.tag # "Ok"
                THEN result_node
                ELSE IF result_node.type_id = NoUuid
                THEN AErr(result_node.m, Error("InitializationNotExpression", <<>>, <<>>))
                ELSE IF already_declared(result_node.m, ast.token)
                THEN AErr(result_node.m, Error("AlreadyExists", ast.token.value, <<>>))
                ELSE LET id == new_v4(result_node.m)
                         symbol == Symbol(ast.token.value, id,
                                          VariableSymbol(result_node.type_id))
                         m1 == minted(result_node.m)
                         m2 == [m1 EXCEPT !.scopes[m1.current_scope_id] =
                                              SymbolTable_insert(@, symbol)]
                     IN  AOk(m2, Sem_Declaration(id, id, result_node.node), NoUuid)
      [] ast.kind = "Assignment" ->
            LET result_node == analyze_node(m, ast.node)
            IN  IF result_node.tag # "Ok"
                THEN result_node
                ELSE LET m1 == result_node.m
                         target == symbol_from_node(current_scope(m1), ast.target, m1)
                     IN  IF target.tag # "Ok"
                         THEN AErr(m1, target.error)
                         ELSE IF target.symbol = NoSymbol
                         THEN AErr(m1, Error("SymbolNotFound", <<>>, <<>>))
                         ELSE IF target.symbol.variant.kind # "Variable"
                         THEN APanic(m1)
                         ELSE IF result_node.type_id = NoUuid
                         THEN AErr(m1, Error("AssignmentNotExpression", <<>>, <<>>))
                         ELSE IF ~same_type(result_node.type_id,
                                            target.symbol.variant.type_id)
                         THEN AErr(m1, Error("TypeMismatch",
                                  name_of_type(current_scope(m1),
                                               target.symbol.variant.type_id, m1),
                                  name_of_type(current_scope(m1),
                                               result_node.type_id, m1)))
                         ELSE AOk(m1, Sem_Assignment(target.symbol.symbol_id,
                                                     result_node.node), NoUuid)
      [] ast.kind = "FunctionCall" ->
            LET callee_result == analyze_node(m, ast.callee)
            IN  IF callee_result.tag # "Ok"
                THEN callee_result
                ELSE LET m1 == callee_result.m
                     IN  IF callee_result.type_id = NoUuid
                         THEN AErr(m1, Error("", <<>>, <<>>))
                         ELSE LET callee == symbol_from_id(current_scope(m1),
                                                           callee_result.type_id, m1)
                              IN  IF callee = NoSymbol
                                  THEN AErr(m1, Error("SymbolNotFound", <<>>, <<>>))
                                  ELSE IF callee.variant.kind # "FunctionType"
                                  THEN APanic(m1)
                                  ELSE IF Len(ast.args) # Len(callee.variant.argument_ids)
                                  THEN AErr(m1, Error("IncorrectNumberOfArguments",
                                                      <<>>, <<>>))
                                  ELSE LET args == analyze_args_run(m1, ast.args,
                                                       callee.variant.argument_ids, <<>>)
                                       IN  IF args.tag # "Ok"
                                           THEN args
                                           ELSE AOk(args.m,
                                                    Sem_FunctionCall(callee_result.node,
                                                                     args.nodes),
                                                    callee.variant.return_id)
      [] ast.kind = "If" ->
            LET condition == analyze_node(m, ast.condition)
            IN  IF condition.tag # "Ok"
                THEN condition
                ELSE LET body == analyze_node(condition.m, ast.body)
                     IN  IF body.tag # "Ok"
                         THEN body
                         ELSE IF condition.type_id = NoUuid
                         THEN AErr(body.m, Error("ConditionNotExpression", <<>>, <<>>))
                         ELSE IF ~is_truth_type(condition.type_id)
                         THEN AErr(body.m, Error("ConditionNotTruth", <<>>, <<>>))
                         ELSE AOk(body.m, Sem_If(condition.node, body.node), NoUuid)
      [] ast.kind = "DebugPrint" ->
            LET result_node == analyze_node(m, ast.node)
            IN  IF result_node.tag # "Ok"
                THEN result_node
                ELSE IF result_node.type_id = NoUuid
                THEN AErr(result_node.m, Error("DebugPrintNotExpression", <<>>, <<>>))
                ELSE AOk(result_node.m, Sem_DebugPrint(result_node.node), NoUuid)

analyze(m, ast) == analyze_node(m, ast)


(***************************************************************************)
(* exec/value.rs                                                           *)
(***************************************************************************)
\* ValueVariant with its payload: kind is Nothing, Int, Dec, Text, Bool or
\* Native; the field of the kind holds the payload.
Content(kind, int, bool, chars) ==
    [kind |-> kind, int |-> int, bool |-> bool, text |-> chars]
Nothing == Content("Nothing", 0, FALSE, <<>>)
PrimitiveValue_Int(i) == Content("Int", i, FALSE, <<>>)
PrimitiveValue_Bool(b) == Content("Bool", 0, b, <<>>)
PrimitiveValue_Text(chars) == Content("Text", 0, FALSE, chars)
FunctionValue_Native == Content("Native", 0, FALSE, <<>>)

Value(content, uuid) == [content |-> content, uuid |-> uuid]

\* Option<Value>
Some(value) == [has |-> TRUE, value |-> value]
None == [has |-> FALSE, value |-> Value(Nothing, NoUuid)]

NoValues == [id \in {} |-> Value(Nothing, NoUuid)]
ValueTable_new == NoValues

ValueTable_insert(values, value) == (value.uuid :> value) @@ values

ValueTable_get(values, uuid) ==
    IF uuid \in DOMAIN values THEN Some(values[uuid]) ELSE None

(***************************************************************************)
(* exec/interpreter.rs                                                     *)
(***************************************************************************)
NoBindings == [id \in {} |-> NoUuid]

Interpreter_new ==
    [scopes |-> SemanticAnalyzer_new.scopes,
     current_scope_id |-> SemanticAnalyzer_new.current_scope_id,
     repl_scope_id |-> SemanticAnalyzer_new.repl_scope_id,
     global_scope_id |-> SemanticAnalyzer_new.global_scope_id,
     uuid |-> SemanticAnalyzer_new.uuid,
     value_table |-> ValueTable_new,
     symbol_to_value |-> NoBindings,
     stdout |-> <<>>]

\* An insert with the key and the value in each other's place.
bind_value_to_symbol(m, symbol_id, value_id) ==
    [m EXCEPT !.symbol_to_value = (value_id :> symbol_id) @@ @]

\* HashMap::insert on symbol_to_value.
bind_symbol_to_value(m, symbol_id, value_id) ==
    [m EXCEPT !.symbol_to_value = (symbol_id :> value_id) @@ @]

\* Value::new: the content under a fresh identity.
Value_new(m, content) == Value(content, new_v4(m))

DigitValue ==
    [c \in Digits |->
        CASE c = "0" -> 0 [] c = "1" -> 1 [] c = "2" -> 2 [] c = "3" -> 3
          [] c = "4" -> 4 [] c = "5" -> 5 [] c = "6" -> 6 [] c = "7" -> 7
          [] c = "8" -> 8 [] c = "9" -> 9]

I64_MAX ==
    <<"9", "2", "2", "3", "3", "7", "2", "0", "3", "6", "8", "5", "4", "7", "7",
      "5", "8", "0", "7">>

RECURSIVE strip_zeros(_)
strip_zeros(chars) ==
    IF Len(chars) > 1 /\ Head(chars) = "0" THEN strip_zeros(Tail(chars)) ELSE chars

\* Whether the digits a (no leading zero) denote more than the digits b.
RECURSIVE digits_greater(_, _)
digits_greater(a, b) ==
    IF Len(a) # Len(b)
    THEN Len(a) > Len(b)
    ELSE IF a = <<>>
    THEN FALSE
    ELSE IF Head(a) # Head(b)
    THEN DigitValue[Head(a)] > DigitValue[Head(b)]
    ELSE digits_greater(Tail(a), Tail(b))

RECURSIVE digits_value(_, _)
digits_value(chars, acc) ==
    IF chars = <<>>
    THEN acc
    ELSE digits_value(Tail(chars), acc * 10 + DigitValue[Head(chars)])

\* str::parse::<i64> on the text of a number token (digits only): the
\* number, or an error when it does not fit 64 bits.
parse_i64(chars) ==
    IF chars = <<>> \/ digits_greater(strip_zeros(chars), I64_MAX)
    THEN [tag |-> "Err", int |-> 0]
    ELSE [tag |-> "Ok", int |-> digits_value(chars, 0)]

\* str::parse::<bool>
parse_bool(chars) ==
    IF chars = <<"t", "r", "u", "e">>
    THEN [tag |-> "Ok", bool |-> TRUE]
    ELSE IF chars = <<"f", "a", "l", "s", "e">>
    THEN [tag |-> "Ok", bool |-> FALSE]
    ELSE [tag |-> "Err", bool |-> FALSE]

\* ExecutionResult, or the error, or a panic; m is the state left behind.
IOk(m, value) == [tag |-> "Ok", m |-> m, value |-> value]
IErr(m, error) == [tag |-> "Err", m |-> m, error |-> error]
IPanic(m) == [tag |-> "Panic", m |-> m]

\* A test that takes any truth value, false included, for true.
is_truth(content) == content.kind = "Bool"

\* The conditional's test of the value of its condition.
is_true(content) == content.kind = "Bool" /\ content.bool

\* Declaration: the symbol is looked up in the current scope alone.
declaration_symbol(m, target) == lookup_id(current_scope(m), target)

\* An assignment that looks its symbol up in the current scope alone.
assignment_symbol_in_current_scope(m, target_id) == lookup_id(current_scope(m), target_id)

\* Assignment: the symbol is looked up through the scope chain.
assignment_symbol(m, target_id) == symbol_from_id(current_scope(m), target_id, m)

\* An assignment that overwrites the value the symbol is bound to, where it
\* is stored, and binds the symbol to the new value only when it has none.
store_in_place(m, symbol, value) ==
    IF symbol.symbol_id \in DOMAIN m.symbol_to_value
    THEN [m EXCEPT !.value_table =
              ValueTable_insert(@, Value(value.content, m.symbol_to_value[symbol.symbol_id]))]
    ELSE [bind_symbol_to_value(m, symbol.symbol_id, value.uuid)
              EXCEPT !.value_table = ValueTable_insert(@, value)]

\* Bind the symbol to the value and store the value.
bind_and_store(m, symbol, value) ==
    LET m1 == bind_symbol_to_value(m, symbol.symbol_id, value.uuid)
    IN  [m1 EXCEPT !.value_table = ValueTable_insert(@, value)]

\* println! of the DebugPrint case.
debug_print(m, value) == [m EXCEPT !.stdout = Append(@, value)]

RECURSIVE interpret(_, _)
RECURSIVE interpret_block_run(_, _)

\* A loop that interprets the first statement of the block alone.
interpret_block_head(m, nodes) ==
    IF nodes = <<>> THEN IOk(m, None) ELSE interpret(m, Head(nodes))

\* The for-loop of the Block case.
interpret_block_run(m, nodes) ==
    IF nodes = <<>>
    THEN IOk(m, None)
    ELSE LET r == interpret(m, Head(nodes))
         IN  IF r.tag # "Ok" THEN r ELSE interpret_block_run(r.m, Tail(nodes))

interpret(m, semantic_ast) ==
    CASE semantic_ast.kind = "Block" ->
            LET body == interpret_block_run(push_scope(m, semantic_ast.scope_id),
                                            semantic_ast.nodes)
            IN  IF body.tag # "Ok"
                THEN body
                ELSE LET popped == pop_scope(body.m)
                     IN  IF popped.tag # "Ok"
                         THEN IPanic(popped.m)
                         ELSE IOk(popped.m, None)
      [] semantic_ast.kind = "Number" ->
            LET parsed == parse_i64(semantic_ast.token.value)
            IN  IF parsed.tag # "Ok"
                THEN IErr(m, Error("ParseIntError", <<>>, <<>>))
                ELSE IOk(minted(m), Some(Value_new(m, PrimitiveValue_Int(parsed.int))))
      [] semantic_ast.kind = "Truth" ->
            LET parsed == parse_bool(semantic_ast.token.value)
            IN  IF parsed.tag # "Ok"
                THEN IErr(m, Error("ParseBoolError", <<>>, <<>>))
                ELSE IOk(minted(m), Some(Value_new(m, PrimitiveValue_Bool(parsed.bool))))
      [] semantic_ast.kind = "Text" ->
            IOk(minted(m), Some(Value_new(m, PrimitiveValue_Text(semantic_ast.token.value))))
      [] semantic_ast.kind = "Variable" ->
            LET symbol == symbol_from_id(current_scope(m), semantic_ast.symbol_id, m)
            IN  IF symbol = NoSymbol
                THEN IErr(m, Error("SymbolNotFound", <<>>, <<>>))
                ELSE IF symbol.symbol_id \notin DOMAIN m.symbol_to_value
                THEN IPanic(m)
                ELSE LET value == ValueTable_get(m.value_table,
                                                 m.symbol_to_value[symbol.symbol_id])
                     IN  IF ~value.has
                         THEN IErr(m, Error("ValueNotFound", <<>>, <<>>))
                         ELSE IOk(m, value)
      [] semantic_ast.kind = "Declaration" ->
            LET result == interpret(m, semantic_ast.node)
            IN  IF result.tag # "Ok"
                THEN result
                ELSE IF ~result.value.has
                THEN IErr(result.m, Error("ShouldHaveValue", <<>>, <<>>))
                ELSE LET symbol == declaration_symbol(result.m, semantic_ast.symbol_id)
                     IN  IF symbol = NoSymbol
                         THEN IErr(result.m, Error("SymbolNotFound", <<>>, <<>>))
                         ELSE IOk(bind_and_store(result.m, symbol, result.value.value),
                                  None)
      [] semantic_ast.kind = "Assignment" ->
            LET result == interpret(m, semantic_ast.node)
            IN  IF result.tag # "Ok"
                THEN result
                ELSE IF ~result.value.has
                THEN IErr(result.m, Error("ShouldHaveValue", <<>>, <<>>))
                ELSE LET symbol == assignment_symbol(result.m, semantic_ast.symbol_id)
                     IN  IF symbol = NoSymbol
                         THEN IErr(result.m, Error("SymbolNotFound", <<>>, <<>>))
                         ELSE IOk(bind_and_store(result.m, symbol, result.value.value),
                                  None)
      [] semantic_ast.kind = "If" ->
            LET condition_result == interpret(m, semantic_ast.condition)
            IN  IF condition_result.tag # "Ok"
                THEN condition_result
                ELSE IF ~condition_result.value.has
                THEN IErr(condition_result.m, Error("ShouldHaveValue", <<>>, <<>>))
                ELSE IF is_true(condition_result.value.value.content)
                THEN LET body == interpret(condition_result.m, semantic_ast.body)
                     IN  IF body.tag # "Ok" THEN body ELSE IOk(body.m, None)
                ELSE IOk(condition_result.m, None)
      [] semantic_ast.kind = "DebugPrint" ->
            LET result == interpret(m, semantic_ast.node)
            IN  IF result.tag # "Ok"
                THEN result
                ELSE IOk(debug_print(result.m, result.value), None)

\* One pass of the for-loop of eval: the statement is analyzed, and what
\* the analyzer returned is interpreted unless it is an error.
interpret_analyzed(semantic_result) ==
    IF semantic_result.tag # "Ok"
    THEN semantic_result
    ELSE interpret(semantic_result.m, semantic_result.node)

eval_statement(m, node) == interpret_analyzed(analyze(m, node))

\* The for-loop of eval; r is what the statement before returned.
RECURSIVE eval_run(_, _, _)
RECURSIVE eval_run_rest(_, _)
\* A loop that goes on to the next statement after one that failed.
eval_run_past_errors(r, statements) ==
    IF r.tag = "Panic"
    THEN r
    ELSE eval_run(r.m, statements, IF r.tag = "Ok" THEN r.value ELSE None)

eval_run_rest(r, statements) ==
    IF r.tag # "Ok" THEN r ELSE eval_run(r.m, statements, r.value)

eval_run(m, statements, result) ==
    IF statements = <<>>
    THEN IOk(m, result)
    ELSE eval_run_rest(eval_statement(m, Head(statements)), Tail(statements))

\* Lexer::new(code).collect()
lex_code(code) == collect(code)

\* Parser::new(tokens).statement_list() on what the lexer collected.
parse_tokens(tokens) ==
    IF tokens.tag = "Panic"
    THEN [tag |-> "Panic"]
    ELSE statement_list(Parser_new(tokens.tokens))

parse_code(code) == parse_tokens(lex_code(code))

\* An end of eval that empties the REPL scope as it leaves it.
eval_pop_empties_scope(popped, value) ==
    IF popped.tag # "Ok"
    THEN IPanic(popped.m)
    ELSE IOk([popped.m EXCEPT !.scopes[popped.m.repl_scope_id].symbols = NoSymbols], value)

\* The end of eval: the pop of the REPL scope and the result.
eval_pop(popped, value) ==
    IF popped.tag # "Ok" THEN IPanic(popped.m) ELSE IOk(popped.m, value)

eval_end(run) ==
    IF run.tag # "Ok" THEN run ELSE eval_pop(pop_scope(run.m), run.value)

\* eval from the parsed statements on.
eval_statements(m, statements) ==
    IF statements.tag = "Panic"
    THEN IPanic(m)
    ELSE IF statements.tag = "Err"
    THEN IErr(m, statements.error)
    ELSE eval_end(eval_run(push_scope(m, m.repl_scope_id), statements.nodes, None))

eval(m, code) == eval_statements(m, parse_code(code))

(***************************************************************************)
(* native/function.rs                                                      *)
(***************************************************************************)
\* The names of the argument types from the i-th on, a comma between two.
RECURSIVE argument_names(_, _, _)
argument_names(argument_ids, i, m) ==
    IF i > Len(argument_ids)
    THEN <<>>
    ELSE name_of_type(current_scope(m), argument_ids[i], m)
             \o (IF i < Len(argument_ids) THEN <<",">> ELSE <<>>)
             \o argument_names(argument_ids, i + 1, m)

\* FunctionTypeSymbol::construct_type_name: the return type is not written.
construct_type_name(return_id, argument_ids, m) ==
    <<"<">> \o argument_names(argument_ids, 1, m) \o <<">">>

\* bind_void_function: the type goes into the global scope, the symbol into
\* the current scope, and the symbol is bound to a new native function value.
bind_void_function(m, name) ==
    LET function_type ==
            Symbol(construct_type_name(NoUuid, <<>>, m), new_v4(m),
                   FunctionTypeSymbol_new(NoUuid, <<>>))
        m1 == minted(m)
        function_symbol ==
            Symbol(name, new_v4(m1), NativeFunctionSymbol_new(function_type.symbol_id))
        m2 == minted(m1)
        m3 == [m2 EXCEPT !.scopes[m2.global_scope_id] = SymbolTable_insert(@, function_type)]
        m4 == [m3 EXCEPT !.scopes[m3.current_scope_id] = SymbolTable_insert(@, function_symbol)]
        value == Value_new(m4, FunctionValue_Native)
        m5 == [minted(m4) EXCEPT !.value_table = ValueTable_insert(@, value)]
    IN  bind_symbol_to_value(m5, function_symbol.symbol_id, value.uuid)

\* A host's binding of a native function of any function type: the steps
\* of bind_void_function with FunctionTypeSymbol::new(return_id, argument_ids).
bind_function(m, name, return_id, argument_ids) ==
    LET function_type ==
            Symbol(construct_type_name(return_id, argument_ids, m), new_v4(m),
                   FunctionTypeSymbol_new(return_id, argument_ids))
        m1 == minted(m)
        function_symbol ==
            Symbol(name, new_v4(m1), NativeFunctionSymbol_new(function_type.symbol_id))
        m2 == minted(m1)
        m3 == [m2 EXCEPT !.scopes[m2.global_scope_id] = SymbolTable_insert(@, function_type)]
        m4 == [m3 EXCEPT !.scopes[m3.current_scope_id] = SymbolTable_insert(@, function_symbol)]
        value == Value_new(m4, FunctionValue_Native)
        m5 == [minted(m4) EXCEPT !.value_table = ValueTable_insert(@, value)]
    IN  bind_symbol_to_value(m5, function_symbol.symbol_id, value.uuid)

(***************************************************************************)
(* Source texts given to eval                                              *)
(***************************************************************************)
src_var(name, expr) == <<"v", "a", "r", " ">> \o name \o <<" ", "=", " ">> \o expr
src_assign(name, expr) == name \o <<" ", "=", " ">> \o expr
src_block(body) == <<"{", " ">> \o body \o <<" ", "}">>
src_if(condition, body) == <<"i", "f", " ">> \o condition \o <<" ">> \o body
src_print(expr) == <<":">> \o expr
src_then(first, second) == first \o <<";", " ">> \o second
src_lines(first, second) == first \o <<NL>> \o second

lit_1 == <<"1">>
lit_2 == <<"2">>
lit_5 == <<"5">>
lit_true == <<"t", "r", "u", "e">>
lit_false == <<"f", "a", "l", "s", "e">>
\* The text literal "a\n": a backslash escape inside the quotes.
lit_text == <<"\"", "a", "\\", "n", "\"">>
name_x == <<"x">>
name_y == <<"y">>
name_z == <<"z">>
name_f == <<"f">>
name_int == <<"i", "n", "t">>
\* A run of digits beyond the 64-bit integers.
lit_huge == [i \in 1..20 |-> "9"]
\* A text literal with no closing quote.
lit_unterminated == <<"\"", "a">>

Names == {name_x, name_y, name_z}
Literals == {lit_1, lit_2, lit_5, lit_true, lit_false, lit_text}

Programs ==
    { src_var(name_x, lit_1),
      src_var(name_x, lit_true),
      src_var(name_y, lit_text),
      name_x,
      name_y,
      name_z,
      src_assign(name_x, lit_2),
      src_assign(name_x, lit_false),
      src_if(lit_true, src_block(src_block(src_assign(name_x, lit_2)))),
      src_block(src_then(src_var(name_x, lit_2), src_print(name_x))),
      src_if(lit_true, src_block(src_var(name_z, lit_5))),
      src_then(src_block(src_var(name_z, lit_5)), name_z),
      src_if(lit_true, src_print(lit_1)),
      src_if(lit_false, src_print(lit_1)),
      src_if(lit_1, src_assign(name_x, lit_2)),
      src_then(src_var(name_x, lit_1), src_var(name_y, name_x)),
      src_then(src_var(name_x, lit_1), src_var(name_x, lit_2)),
      src_then(src_var(name_x, lit_1),
               src_then(src_block(src_block(src_assign(name_x, lit_2))), name_x)),
      src_lines(src_var(name_x, lit_1),
                src_lines(src_var(name_y, name_x), src_print(name_y))) }

\* Source texts that fail, some part of the way through, or that leave
\* something behind for a later call, with the texts they are told by.
FaultyPrograms ==
    { src_var(name_x, lit_1),
      src_var(name_x, lit_true),
      src_var(name_y, lit_text),
      name_x,
      name_z,
      name_f,
      src_assign(name_x, lit_2),
      src_assign(name_x, lit_false),
      src_then(src_var(name_x, lit_1), src_then(name_z, src_var(name_y, lit_5))),
      src_then(src_var(name_x, lit_1), src_then(lit_huge, src_print(name_x))),
      src_assign(name_int, lit_1),
      src_if(lit_false, src_var(name_z, lit_5)),
      src_if(lit_1, src_var(name_z, lit_5)),
      src_then(src_print(lit_1), lit_unterminated),
      src_block(name_z),
      src_block(src_block(name_z)),
      src_if(name_x, src_print(lit_1)),
      src_if(lit_true, src_block(src_var(name_z, lit_5))) }

(***************************************************************************)
(* The interpreter instance and the calls made on it                       *)
(***************************************************************************)

\* The number of calls made on the instance.
MaxEvals == 3

VARIABLES
    scopes,            \* SemanticAnalyzer.scopes
    current_scope_id,  \* SemanticAnalyzer.current_scope_id
    repl_scope_id,     \* SemanticAnalyzer.repl_scope_id
    global_scope_id,   \* SemanticAnalyzer.global_scope_id
    uuid,              \* the identities minted so far
    value_table,       \* Interpreter.value_table
    symbol_to_value,   \* Interpreter.symbol_to_value
    stdout,            \* what DebugPrint has printed
    code,              \* the source text of the last eval call
    result,            \* what the last eval call returned
    alive,             \* FALSE once a panic has ended the process
    calls,             \* the number of calls made
    history            \* the eval calls made so far, each with what it returned

vars ==
    <<scopes, current_scope_id, repl_scope_id, global_scope_id, uuid, value_table,
      symbol_to_value, stdout, code, result, alive, calls, history>>

\* The interpreter instance as one record.
M ==
    [scopes |-> scopes, current_scope_id |-> current_scope_id,
     repl_scope_id |-> repl_scope_id, global_scope_id |-> global_scope_id,
     uuid |-> uuid, value_table |-> value_table,
     symbol_to_value |-> symbol_to_value, stdout |-> stdout]

NoError == Error("", <<>>, <<>>)

Returned(r) ==
    [tag |-> r.tag,
     value |-> IF r.tag = "Ok" THEN r.value ELSE None,
     error |-> IF r.tag = "Err" THEN r.error ELSE NoError]

Init ==
    /\ scopes = Interpreter_new.scopes
    /\ current_scope_id = Interpreter_new.current_scope_id
    /\ repl_scope_id = Interpreter_new.repl_scope_id
    /\ global_scope_id = Interpreter_new.global_scope_id
    /\ uuid = Interpreter_new.uuid
    /\ value_table = Interpreter_new.value_table
    /\ symbol_to_value = Interpreter_new.symbol_to_value
    /\ stdout = Interpreter_new.stdout
    /\ code = <<>>
    /\ result = [tag |-> "None", value |-> None, error |-> NoError]
    /\ alive = TRUE
    /\ calls = 0
    /\ history = <<>>

\* interpreter.eval(c)
Eval(c) ==
    /\ alive
    /\ calls < MaxEvals
    /\ \E r \in {eval(M, c)} :
           /\ scopes' = r.m.scopes
           /\ current_scope_id' = r.m.current_scope_id
           /\ repl_scope_id' = r.m.repl_scope_id
           /\ global_scope_id' = r.m.global_scope_id
           /\ uuid' = r.m.uuid
           /\ value_table' = r.m.value_table
           /\ symbol_to_value' = r.m.symbol_to_value
           /\ stdout' = r.m.stdout
           /\ result' = Returned(r)
           /\ alive' = (r.tag # "Panic")
    /\ code' = c
    /\ calls' = calls + 1
    /\ history' = Append(history, [code |-> code', result |-> result'])

Next == \E c \in Programs : Eval(c)

Spec == Init /\ [][Next]_vars

\* interpreter.bind_void_function(name, f), between two eval calls
BindVoidFunction(name) ==
    /\ alive
    /\ calls < MaxEvals
    /\ \E r \in {bind_void_function(M, name)} :
           /\ scopes' = r.scopes
           /\ current_scope_id' = r.current_scope_id
           /\ repl_scope_id' = r.repl_scope_id
           /\ global_scope_id' = r.global_scope_id
           /\ uuid' = r.uuid
           /\ value_table' = r.value_table
           /\ symbol_to_value' = r.symbol_to_value
           /\ stdout' = r.stdout
    /\ calls' = calls + 1
    /\ UNCHANGED <<code, result, alive, history>>

\* The calls a host makes on an instance: eval of texts that may fail, and
\* the binding of a native function.
HostNext ==
    \/ \E c \in FaultyPrograms : Eval(c)
    \/ BindVoidFunction(name_f)

HostSpec == Init /\ [][HostNext]_vars

(***************************************************************************)
(* The parser's tests: parse_statement on the text of one assignment       *)
(***************************************************************************)
AssignedNames ==
    {name_x, name_y, name_z, name_f, name_int, <<"a", "b">>, <<"x", "y">>, <<"a", "b", "c">>}
AssignedNumbers ==
    {<<"0">>, lit_1, lit_2, lit_5, <<"1", "0">>, <<"2", "5">>, <<"0", "7">>, lit_huge}
AssignmentTexts == {src_assign(n, k) : n \in AssignedNames, k \in AssignedNumbers}

\* tests::parser(input): the parser over the tokens of the text.
test_parser(input) == Parser_new(lex_code(input).tokens)

NotParsed == [tag |-> "None", node |-> Ast_Block(<<>>)]

ParseInit ==
    /\ scopes = Interpreter_new.scopes
    /\ current_scope_id = Interpreter_new.current_scope_id
    /\ repl_scope_id = Interpreter_new.repl_scope_id
    /\ global_scope_id = Interpreter_new.global_scope_id
    /\ uuid = Interpreter_new.uuid
    /\ value_table = Interpreter_new.value_table
    /\ symbol_to_value = Interpreter_new.symbol_to_value
    /\ stdout = Interpreter_new.stdout
    /\ code \in AssignmentTexts
    /\ result = NotParsed
    /\ alive = TRUE
    /\ calls = 0
    /\ history = <<>>

\* parser(code).parse_statement()
ParseStatement ==
    /\ calls = 0
    /\ \E r \in {parse_statement(test_parser(code))} :
           result' = [tag |-> r.tag, node |-> IF r.tag = "Ok" THEN r.node ELSE Ast_Block(<<>>)]
    /\ calls' = 1
    /\ UNCHANGED <<scopes, current_scope_id, repl_scope_id, global_scope_id, uuid,
                   value_table, symbol_to_value, stdout, code, alive, history>>

ParseNext == ParseStatement

ParseSpec == ParseInit /\ [][ParseNext]_vars

(***************************************************************************)
(* The lexer on its own: Lexer::new(code).collect() over short sources     *)
(***************************************************************************)
\* The longest source text.
MaxSourceLen == 3

SourceChars == {"1", "2", "x", NL, " ", ";"}

SourceTexts ==
    UNION {[1..n -> SourceChars] : n \in 0..MaxSourceLen}

NotLexed == [tag |-> "None", tokens |-> <<>>]

LexInit ==
    /\ scopes = Interpreter_new.scopes
    /\ current_scope_id = Interpreter_new.current_scope_id
    /\ repl_scope_id = Interpreter_new.repl_scope_id
    /\ global_scope_id = Interpreter_new.global_scope_id
    /\ uuid = Interpreter_new.uuid
    /\ value_table = Interpreter_new.value_table
    /\ symbol_to_value = Interpreter_new.symbol_to_value
    /\ stdout = Interpreter_new.stdout
    /\ code \in SourceTexts
    /\ result = NotLexed
    /\ alive = TRUE
    /\ calls = 0
    /\ history = <<>>

\* Lexer::new(code).collect()
Collect ==
    /\ calls = 0
    /\ \E r \in {lex_code(code)} :
           /\ result' = [tag |-> r.tag, tokens |-> r.tokens]
           /\ alive' = (r.tag # "Panic")
    /\ calls' = 1
    /\ UNCHANGED <<scopes, current_scope_id, repl_scope_id, global_scope_id, uuid,
                   value_table, symbol_to_value, stdout, code, history>>

LexNext == Collect

LexSpec == LexInit /\ [][LexNext]_vars

(***************************************************************************)
(* The parser as eval calls it: statement_list over the tokens of a text   *)
(***************************************************************************)
\* The most pieces a composed text has.
MaxPieces == 3

\* The token texts the composed sources are made of, each with the blank
\* that separates it from the next.
Pieces ==
    { <<"v", "a", "r", " ">>, <<"x", " ">>, <<"=", " ">>, <<"1", " ">>, <<":">>,
      <<"i", "f", " ">>, <<"t", "r", "u", "e", " ">>, <<"{", " ">>, <<"}", " ">>,
      <<";", " ">> }

RECURSIVE concat(_)
concat(pieces) ==
    IF pieces = <<>> THEN <<>> ELSE Head(pieces) \o concat(Tail(pieces))

ComposedTexts ==
    {concat(pieces) : pieces \in UNION {[1..n -> Pieces] : n \in 1..MaxPieces}}

\* Texts that end where the grammar asks for another token.
TruncatedTexts ==
    { <<"v", "a", "r">>,
      <<"v", "a", "r", " ", "x", " ", "=">>,
      <<"x", " ", "=">>,
      <<":">>,
      <<"i", "f">>,
      <<"i", "f", " ", "t", "r", "u", "e">>,
      <<"{">>,
      <<"{", " ", "x">>,
      <<"{", " ", "x", ";">> }

\* A conditional, one separator, and another statement.
Separators == {<<";", " ">>, <<";">>, <<NL, NL>>}

ConditionalTexts ==
    { src_if(lit_true, src_print(lit_1)),
      src_if(lit_true, src_block(src_print(lit_1))),
      src_if(name_x, src_assign(name_x, lit_1)),
      src_if(lit_false, src_block(<<>>)) }

ConditionalThenStatement ==
    {c \o sep \o src_print(lit_2) : c \in ConditionalTexts, sep \in Separators}

\* Texts with a `}` that closes no block, and statements after it.
UnmatchedTexts ==
    { <<":", "1", " ", "}", " ", ":", "2">>,
      <<"}", " ", ":", "2">>,
      <<"v", "a", "r", " ", "x", " ", "=", " ", "1", " ", "}", ";", " ", ":", "x">> }

ParsedTexts ==
    ComposedTexts \union TruncatedTexts \union ConditionalThenStatement
        \union UnmatchedTexts

NoStatements == [tag |-> "None", nodes |-> <<>>, error |-> Error("", "", "")]

StatementListInit ==
    /\ scopes = Interpreter_new.scopes
    /\ current_scope_id = Interpreter_new.current_scope_id
    /\ repl_scope_id = Interpreter_new.repl_scope_id
    /\ global_scope_id = Interpreter_new.global_scope_id
    /\ uuid = Interpreter_new.uuid
    /\ value_table = Interpreter_new.value_table
    /\ symbol_to_value = Interpreter_new.symbol_to_value
    /\ stdout = Interpreter_new.stdout
    /\ code \in ParsedTexts
    /\ result = NoStatements
    /\ alive = TRUE
    /\ calls = 0
    /\ history = <<>>

\* Parser::new(tokens).statement_list() on the tokens of the text
StatementList ==
    /\ calls = 0
    /\ \E r \in {parse_code(code)} :
           /\ result' = [tag |-> r.tag,
                         nodes |-> IF r.tag = "Ok" THEN r.nodes ELSE <<>>,
                         error |-> IF r.tag = "Err" THEN r.error ELSE Error("", "", "")]
           /\ alive' = (r.tag # "Panic")
    /\ calls' = 1
    /\ UNCHANGED <<scopes, current_scope_id, repl_scope_id, global_scope_id, uuid,
                   value_table, symbol_to_value, stdout, code, history>>

StatementListNext == StatementList

StatementListSpec == StatementListInit /\ [][StatementListNext]_vars

(***************************************************************************)
(* The analyzer on function calls: analyze on a FunctionCall node, in an   *)
(* instance where a host has bound native functions                        *)
(***************************************************************************)
\* The most arguments a call is given.
MaxArgs == 3

name_g == <<"g">>
name_h == <<"h">>

\* f of type <> (no arguments, no return), g taking an int and a truth and
\* returning a string, h taking an int and returning nothing.
CallHost ==
    bind_function(
        bind_function(bind_void_function(Interpreter_new, name_f),
                      name_g, TEXT_TYPE.symbol_id,
                      <<INT_TYPE.symbol_id, TRUTH_TYPE.symbol_id>>),
        name_h, NoUuid, <<INT_TYPE.symbol_id>>)

Callees == {name_f, name_g, name_h}
ArgumentTexts == {lit_1, lit_true, lit_text, name_z}

\* A call as the text of its callee followed by the texts of its arguments.
CallTexts ==
    {<<callee>> \o args :
        callee \in Callees,
        args \in UNION {[1..n -> ArgumentTexts] : n \in 0..MaxArgs}}

\* The node the parser makes of a name or a literal.
factor_node(chars) == parse_factor(test_parser(chars)).node

call_node(call) ==
    Ast_FunctionCall(factor_node(Head(call)),
                     [i \in 1..(Len(call) - 1) |-> factor_node(call[i + 1])])

NotAnalyzed == [tag |-> "None", type_id |-> NoUuid, error |-> NoError, node |-> Sem_Block(<<>>, NoUuid)]

CallInit ==
    /\ scopes = CallHost.scopes
    /\ current_scope_id = CallHost.current_scope_id
    /\ repl_scope_id = CallHost.repl_scope_id
    /\ global_scope_id = CallHost.global_scope_id
    /\ uuid = CallHost.uuid
    /\ value_table = CallHost.value_table
    /\ symbol_to_value = CallHost.symbol_to_value
    /\ stdout = CallHost.stdout
    /\ code \in CallTexts
    /\ result = NotAnalyzed
    /\ alive = TRUE
    /\ calls = 0
    /\ history = <<>>

\* semantic_analyzer.analyze(node) on the call, from the REPL scope
AnalyzeCall ==
    /\ calls = 0
    /\ \E r \in {analyze(push_scope(M, repl_scope_id), call_node(code))} :
           /\ scopes' = r.m.scopes
           /\ current_scope_id' = r.m.current_scope_id
           /\ uuid' = r.m.uuid
           /\ result' = [tag |-> r.tag,
                         type_id |-> IF r.tag = "Ok" THEN r.type_id ELSE NoUuid,
                         error |-> IF r.tag = "Err" THEN r.error ELSE NoError,
                         node |-> IF r.tag = "Ok" THEN r.node ELSE Sem_Block(<<>>, NoUuid)]
           /\ alive' = (r.tag # "Panic")
    /\ calls' = 1
    /\ UNCHANGED <<repl_scope_id, global_scope_id, value_table, symbol_to_value,
                   stdout, code, history>>

CallNext == AnalyzeCall

CallSpec == CallInit /\ [][CallNext]_vars

(***************************************************************************)
(* What a caller of eval can observe                                       *)
(***************************************************************************)
\* The eval call before the last one.
previous == history[Len(history) - 1]

\* The payload of the value the last eval call returned, Nothing when it
\* returned no value.
returned_content(r) ==
    IF r.tag = "Ok" /\ r.value.has THEN r.value.value.content ELSE Nothing

\* The symbol a name denotes at the top level of the REPL.
declared(n) == SymbolTable_lookup(scopes[repl_scope_id], n)

\* The name denotes a variable of the type at the top level of the REPL.
declared_as(n, type) ==
    /\ declared(n) # NoSymbol
    /\ declared(n).variant.kind = "Variable"
    /\ declared(n).variant.type_id = type.symbol_id

\* The payload a read of the name returns from the interpreter m, Nothing
\* when the read returns no value.
read(m, n) == returned_content(eval(m, n))

\* The symbols of that name in the scope.
symbols_named(table, n) == {id \in DOMAIN table.symbols : table.symbols[id].name = n}

\* The name is declared in no scope on the chain from the REPL scope to the root.
undeclared(n) ==
    /\ symbols_named(scopes[repl_scope_id], n) = {}
    /\ symbols_named(scopes[global_scope_id], n) = {}

\* The payload each literal of Literals denotes.
LitPayload(L) ==
    CASE L = lit_1 -> PrimitiveValue_Int(1)
      [] L = lit_2 -> PrimitiveValue_Int(2)
      [] L = lit_5 -> PrimitiveValue_Int(5)
      [] L = lit_true -> PrimitiveValue_Bool(TRUE)
      [] L = lit_false -> PrimitiveValue_Bool(FALSE)
      [] L = lit_text -> PrimitiveValue_Text(<<"a", NL>>)

(***************************************************************************)
(* C1: after a successful eval of `var n = L`, for a literal L and a name  *)
(* n, the eval of the bare reference `n` that follows succeeds and returns *)
(* a value whose payload is the parsed value of L.                         *)
(***************************************************************************)
C1_DeclaredLiteralIsRead ==
    [][\A n \in Names, L \in Literals :
          (code = src_var(n, L) /\ result.tag = "Ok" /\ code' = n)
              => (result'.tag = "Ok" /\ result'.value.has
                  /\ returned_content(result') = LitPayload(L))]_vars

C1_Witness ==
    \E n \in Names, L \in Literals :
        /\ Len(history) >= 2
        /\ previous.code = src_var(n, L) /\ previous.result.tag = "Ok"
        /\ code = n /\ returned_content(result) = LitPayload(L)

(***************************************************************************)
(* C2: an assignment of an integer to a variable declared as an integer    *)
(* succeeds at nesting depth 0 and inside two nested blocks alike, and the *)
(* read that follows it, after the blocks have ended, in a later eval     *)
(* call or in the same one, returns the new value.                         *)
(***************************************************************************)
AssignedInBlockThenRead ==
    src_then(src_var(name_x, lit_1),
             src_then(src_block(src_block(src_assign(name_x, lit_2))), name_x))

AssignmentsOfTwo ==
    { src_assign(name_x, lit_2),
      src_if(lit_true, src_block(src_block(src_assign(name_x, lit_2)))) }

C2_AssignmentIsObserved ==
    [][\A a \in AssignmentsOfTwo :
          /\ (declared_as(name_x, INT_TYPE) /\ code' = a) => result'.tag = "Ok"
          /\ (code = a /\ result.tag = "Ok" /\ code' = name_x)
                 => returned_content(result') = PrimitiveValue_Int(2)
          /\ (undeclared(name_x) /\ code' = AssignedInBlockThenRead)
                 => returned_content(result') = PrimitiveValue_Int(2)]_vars

C2_Witness ==
    /\ Len(history) >= 3
    /\ history[Len(history) - 2].code = src_var(name_x, lit_1)
    /\ previous.code = src_if(lit_true, src_block(src_block(src_assign(name_x, lit_2))))
    /\ previous.result.tag = "Ok"
    /\ code = name_x
    /\ returned_content(result) = PrimitiveValue_Int(2)

(***************************************************************************)
(* C3: an assignment of a value whose type is not the declared type of the *)
(* variable makes eval return the type-mismatch error that names the       *)
(* expected and the actual type; the binding map and the value table are   *)
(* unchanged and a read returns what it returned before.                   *)
(***************************************************************************)
type_mismatch(expected, got) == Error("TypeMismatch", expected.name, got.name)

C3_MismatchedAssignmentRejected ==
    [][/\ (declared_as(name_x, INT_TYPE) /\ code' = src_assign(name_x, lit_false))
              => /\ result'.tag = "Err"
                 /\ result'.error = type_mismatch(INT_TYPE, TRUTH_TYPE)
                 /\ symbol_to_value' = symbol_to_value
                 /\ value_table' = value_table
                 /\ read(M', name_x) = read(M, name_x)
       /\ \A a \in AssignmentsOfTwo :
              (declared_as(name_x, TRUTH_TYPE) /\ code' = a)
                  => /\ result'.tag = "Err"
                     /\ result'.error = type_mismatch(TRUTH_TYPE, INT_TYPE)
                     /\ symbol_to_value' = symbol_to_value
                     /\ value_table' = value_table
                     /\ read(M', name_x) = read(M, name_x)]_vars

C3_Witness ==
    /\ Len(history) >= 3
    /\ history[Len(history) - 2].code = src_var(name_x, lit_1)
    /\ previous.code = src_assign(name_x, lit_false)
    /\ previous.result.tag = "Err"
    /\ previous.result.error = type_mismatch(INT_TYPE, TRUTH_TYPE)
    /\ code = name_x
    /\ returned_content(result) = PrimitiveValue_Int(1)

(***************************************************************************)
(* C4: a declaration of a name the REPL scope already declares, by an      *)
(* earlier eval call or by an earlier statement of the same call, fails    *)
(* with the duplicate-declaration error; the scope keeps one symbol of     *)
(* that name, and its binding and value are unchanged.                     *)
(***************************************************************************)
already_exists(n) == Error("AlreadyExists", n, <<>>)

DeclaredTwice == src_then(src_var(name_x, lit_1), src_var(name_x, lit_2))

C4_DuplicateDeclarationRejected ==
    [][/\ \A L \in {lit_1, lit_true} :
              (~undeclared(name_x) /\ code' = src_var(name_x, L))
                  => /\ result'.tag = "Err"
                     /\ result'.error = already_exists(name_x)
                     /\ scopes' = scopes
                     /\ symbol_to_value' = symbol_to_value
                     /\ value_table' = value_table
                     /\ read(M', name_x) = read(M, name_x)
       /\ (undeclared(name_x) /\ code' = DeclaredTwice)
              => /\ result'.tag = "Err"
                 /\ result'.error = already_exists(name_x)
                 /\ Cardinality(symbols_named(scopes'[repl_scope_id'], name_x)) = 1
                 /\ read(M', name_x) = PrimitiveValue_Int(1)]_vars

C4_Witness ==
    /\ Len(history) = 2
    /\ history[1].code = DeclaredTwice
    /\ history[1].result.error = already_exists(name_x)
    /\ history[2].code = src_var(name_x, lit_true)
    /\ history[2].result.error = already_exists(name_x)
    /\ read(M, name_x) = PrimitiveValue_Int(1)

(***************************************************************************)
(* C5: with x declared at the top level, the eval of a block that declares *)
(* x again and prints it succeeds and prints the inner variable, and a     *)
(* read of x after the block returns the value of the outer variable.      *)
(***************************************************************************)
ShadowingBlock == src_block(src_then(src_var(name_x, lit_2), src_print(name_x)))

C5_ShadowingSucceeds ==
    [][(declared_as(name_x, INT_TYPE) /\ code' = ShadowingBlock)
           => /\ result'.tag = "Ok"
              /\ Len(stdout') = Len(stdout) + 1
              /\ stdout'[Len(stdout')].value.content = PrimitiveValue_Int(2)
              /\ read(M', name_x) = read(M, name_x)]_vars

(***************************************************************************)
(* C6: a variable declared inside a block is not resolvable once the block *)
(* has ended, in the same eval call or in a later one, and a reference to  *)
(* a name declared in no scope from the REPL scope to the root fails: eval *)
(* returns the unknown-variable error.                                     *)
(***************************************************************************)
variable_not_found(n) == Error("VariableNotFound", n, <<>>)

DeclaredInBlock == src_if(lit_true, src_block(src_var(name_z, lit_5)))
DeclaredInBlockThenRead == src_then(src_block(src_var(name_z, lit_5)), name_z)

C6_BlockVariableEnds ==
    [][/\ (code = DeclaredInBlock /\ result.tag = "Ok" /\ code' = name_z)
              => /\ result'.tag = "Err"
                 /\ result'.error = variable_not_found(name_z)
       /\ (code' = DeclaredInBlockThenRead)
              => /\ result'.tag = "Err"
                 /\ result'.error = variable_not_found(name_z)
       /\ \A n \in Names :
              (undeclared(n) /\ code' = n)
                  => /\ result'.tag = "Err"
                     /\ result'.error = variable_not_found(n)]_vars

C6_Witness ==
    /\ Len(history) >= 2
    /\ previous.code = DeclaredInBlock
    /\ previous.result.tag = "Ok"
    /\ code = name_z
    /\ result.tag = "Err"
    /\ result.error = variable_not_found(name_z)

(***************************************************************************)
(* C7: a conditional evaluates its condition once, one value being minted  *)
(* for it, and executes its body once when the condition is true (the      *)
(* body's print prints once, the body's literal is minted once) and not at *)
(* all when it is false; in both cases eval returns no value.              *)
(***************************************************************************)
PrintIfTrue == src_if(lit_true, src_print(lit_1))
PrintIfFalse == src_if(lit_false, src_print(lit_1))

C7_ConditionalRunsBodyOnce ==
    [][/\ (code' = PrintIfTrue)
              => /\ result'.tag = "Ok"
                 /\ ~result'.value.has
                 /\ Len(stdout') = Len(stdout) + 1
                 /\ SubSeq(stdout', 1, Len(stdout)) = stdout
                 /\ stdout'[Len(stdout')].value.content = PrimitiveValue_Int(1)
                 /\ uuid' = uuid + 2
       /\ (code' = PrintIfFalse)
              => /\ result'.tag = "Ok"
                 /\ ~result'.value.has
                 /\ stdout' = stdout
                 /\ uuid' = uuid + 1]_vars

C7_Witness ==
    /\ Len(history) = 2
    /\ history[1].code = PrintIfTrue
    /\ history[2].code = PrintIfFalse
    /\ result.tag = "Ok"
    /\ Len(stdout) = 1

(***************************************************************************)
(* C8: a conditional whose condition is an integer makes eval return an    *)
(* error, the condition-type error when its body analyzes, and nothing of  *)
(* the statement is executed: the value table, the binding map and the     *)
(* output are as before and no value is minted.                            *)
(***************************************************************************)
condition_not_truth == Error("ConditionNotTruth", <<>>, <<>>)

AssignIfOne == src_if(lit_1, src_assign(name_x, lit_2))

C8_NonTruthConditionRejected ==
    [][(code' = AssignIfOne)
           => /\ result'.tag = "Err"
              /\ declared_as(name_x, INT_TYPE) => result'.error = condition_not_truth
              /\ value_table' = value_table
              /\ symbol_to_value' = symbol_to_value
              /\ stdout' = stdout
              /\ uuid' = uuid
              /\ read(M', name_x) = read(M, name_x)]_vars

C8_Witness ==
    /\ Len(history) >= 2
    /\ previous.code = src_var(name_x, lit_1)
    /\ previous.result.tag = "Ok"
    /\ code = AssignIfOne
    /\ result.tag = "Err"
    /\ result.error = condition_not_truth
    /\ read(M, name_x) = PrimitiveValue_Int(1)

(***************************************************************************)
(* C9: after `var x = 1; var y = x` the two symbols are bound to the same  *)
(* value, and whatever eval call follows, assignments to x included, y     *)
(* stays bound to that value: a successful assignment redirects x to an    *)
(* identity the value table did not hold and changes no other binding and  *)
(* no stored value.                                                        *)
(***************************************************************************)
DeclaredFromVariable == src_then(src_var(name_x, lit_1), src_var(name_y, name_x))

AssignmentsToX == AssignmentsOfTwo \union {src_assign(name_x, lit_false)}

value_of(n) == symbol_to_value[declared(n).symbol_id]

ThreeLines ==
    src_lines(src_var(name_x, lit_1), src_lines(src_var(name_y, name_x), src_print(name_y)))

C10_LinesAreStatements ==
    [][(undeclared(name_x) /\ undeclared(name_y) /\ code' = ThreeLines)
           => /\ result'.tag = "Ok"
              /\ read(M', name_x) = PrimitiveValue_Int(1)
              /\ value_of(name_y)' = value_of(name_x)'
              /\ Len(stdout') = Len(stdout) + 1
              /\ stdout'[Len(stdout')].value.content = PrimitiveValue_Int(1)]_vars

(***************************************************************************)
(* C11: a top-level variable declared by a successful eval call is         *)
(* resolvable in every later state of the instance, whatever calls,        *)
(* successful or failed, were made in between: a read returns the value of *)
(* the last successful declaration of it or assignment to it.              *)
(***************************************************************************)
\* The payload the i-th call of the history gave the name, Nothing when it
\* gave it none.
given(i, n) ==
    IF history[i].result.tag # "Ok"
    THEN Nothing
    ELSE IF \E L \in Literals : history[i].code \in {src_var(n, L), src_assign(n, L)}
    THEN LitPayload(CHOOSE L \in Literals :
                        history[i].code \in {src_var(n, L), src_assign(n, L)})
    ELSE Nothing

\* The payload the last call up to the i-th that gave the name one gave it.
RECURSIVE latest(_, _)
latest(i, n) ==
    IF i = 0 THEN Nothing ELSE IF given(i, n) # Nothing THEN given(i, n) ELSE latest(i - 1, n)

declared_by_eval(n) ==
    \E i \in 1..Len(history), L \in Literals :
        history[i].code = src_var(n, L) /\ history[i].result.tag = "Ok"

C11_StatePersists ==
    \A n \in Names :
        (alive /\ declared_by_eval(n))
            => /\ declared(n) # NoSymbol
               /\ read(M, n) = latest(Len(history), n)
               /\ (code = n) => returned_content(result) = latest(Len(history), n)

C11_Witness ==
    /\ Len(history) = 3
    /\ history[1].code = src_var(name_x, lit_1) /\ history[1].result.tag = "Ok"
    /\ history[2].code = src_assign(name_x, lit_2) /\ history[2].result.tag = "Ok"
    /\ history[3].code = src_block(name_z) /\ history[3].result.tag = "Err"
    /\ read(M, name_x) = PrimitiveValue_Int(2)

(***************************************************************************)
(* C12: when the second of three top-level statements fails, in analysis   *)
(* (`z`) or in interpretation (a number beyond 64 bits), eval returns that *)
(* error, the third statement is neither analyzed (it declares nothing)    *)
(* nor executed (it prints nothing), and the instance is left as the first *)
(* statement alone leaves it: its declaration of x is committed and a      *)
(* later eval call reads it.  When the first statement fails, nothing      *)
(* changes.  (z is declared nowhere, so that its analysis fails.)          *)
(***************************************************************************)
FailsInAnalysis ==
    src_then(src_var(name_x, lit_1), src_then(name_z, src_var(name_y, lit_5)))
FailsInInterpretation ==
    src_then(src_var(name_x, lit_1), src_then(lit_huge, src_print(name_x)))

parse_int_error == Error("ParseIntError", <<>>, <<>>)

\* The error the second statement of the text returns.
second_fails_with(c) ==
    IF c = FailsInAnalysis THEN variable_not_found(name_z) ELSE parse_int_error

\* The step is an eval call of the text.
evaluates(c) == code' = c /\ Len(history') = Len(history) + 1

\* The instance as the first statement alone leaves it.
after_first == eval(M, src_var(name_x, lit_1)).m

C12_EarlierStatementsCommitted ==
    [][\A c \in {FailsInAnalysis, FailsInInterpretation} :
          /\ (undeclared(name_x) /\ undeclared(name_z) /\ evaluates(c))
                 => /\ result'.tag = "Err"
                    /\ result'.error = second_fails_with(c)
                    /\ scopes' = after_first.scopes
                    /\ value_table' = after_first.value_table
                    /\ symbol_to_value' = after_first.symbol_to_value
                    /\ uuid' = after_first.uuid
                    /\ stdout' = stdout
                    /\ undeclared(name_y)' = undeclared(name_y)
                    /\ declared_as(name_x, INT_TYPE)'
                    /\ read(M', name_x) = PrimitiveValue_Int(1)
          /\ (~undeclared(name_x) /\ evaluates(c))
                 => /\ result'.tag = "Err"
                    /\ result'.error = already_exists(name_x)
                    /\ scopes' = scopes
                    /\ value_table' = value_table
                    /\ symbol_to_value' = symbol_to_value
                    /\ stdout' = stdout
          /\ (Len(history) = 1 /\ code = c /\ evaluates(name_x))
                 => returned_content(result') = PrimitiveValue_Int(1)]_vars

C12_Witness ==
    /\ Len(history) = 3
    /\ history[1].code = FailsInInterpretation
    /\ history[1].result.error = parse_int_error
    /\ history[2].code = FailsInAnalysis
    /\ history[2].result.error = already_exists(name_x)
    /\ history[3].code = name_x
    /\ returned_content(result) = PrimitiveValue_Int(1)
    /\ Len(stdout) = 0
    /\ undeclared(name_y)

(***************************************************************************)
(* C13: when an eval call has returned, with a value or with an error, the *)
(* current scope of the analyzer is the global scope again.                *)
(***************************************************************************)
C13_ScopeExitedAfterEval ==
    (alive /\ history # <<>>) => current_scope_id = global_scope_id

(***************************************************************************)
(* C14: once bind_void_function has bound a native function to a name, in  *)
(* every later state an eval of a reference to the name succeeds and       *)
(* returns the native function value.                                      *)
(***************************************************************************)
\* bind_void_function has put a symbol of that name into some scope.
native_bound(n) ==
    \E t \in DOMAIN scopes :
        \E id \in symbols_named(scopes[t], n) :
            scopes[t].symbols[id].variant.kind = "NativeFunction"

C14_BoundFunctionResolves ==
    (alive /\ native_bound(name_f)) => read(M, name_f) = FunctionValue_Native

(***************************************************************************)
(* C15: an assignment to a name that denotes no variable (here the type    *)
(* int) is a semantic error that eval returns as an error value, and the   *)
(* process goes on to accept further eval calls.                           *)
(***************************************************************************)
AssignToType == src_assign(name_int, lit_1)

C15_SemanticErrorsReturned ==
    (code = AssignToType) => (result.tag = "Err" /\ alive)

(***************************************************************************)
(* C16: the eval of a text with an unterminated text literal returns an    *)
(* error and executes none of its statements, the print that precedes the  *)
(* literal included.                                                       *)
(***************************************************************************)
PrintThenUnterminated == src_then(src_print(lit_1), lit_unterminated)

C16_UnterminatedTextIsFatal ==
    [][evaluates(PrintThenUnterminated)
           => (result'.tag = "Err" /\ stdout' = stdout /\ uuid' = uuid)]_vars

(***************************************************************************)
(* C17: parse_statement on `<name> = <number>` returns the node            *)
(* Assignment(t, Number(k)) where t is the name token itself, of kind      *)
(* Name with the name as its text, and k is the number token.              *)
(***************************************************************************)
\* The i-th token of the text.
token_of(input, i) == lex_code(input).tokens[i]

C17_AssignmentHoldsNameToken ==
    (calls = 1)
        => /\ result.tag = "Ok"
           /\ token_of(code, 1).token_type = "Name"
           /\ token_of(code, 3).token_type = "Number"
           /\ result.node = Ast_Assignment(token_of(code, 1), Ast_Number(token_of(code, 3)))

(***************************************************************************)
(* C18: in every state, each variable symbol that name resolution reaches  *)
(* from the REPL scope (the symbols of the REPL scope and of its parent,   *)
(* the global scope) has an entry in the binding map that leads to a       *)
(* stored value, and the eval of a reference to a declared name does not   *)
(* abort on a missing binding.                                             *)
(***************************************************************************)
\* The variable symbols of a scope.
variables_of(table) ==
    {id \in DOMAIN table.symbols : table.symbols[id].variant.kind = "Variable"}

\* The symbol has a binding, and the binding leads to a stored value.
bound(id) ==
    /\ id \in DOMAIN symbol_to_value
    /\ symbol_to_value[id] \in DOMAIN value_table

DeclaredInSkippedBody == src_if(lit_false, src_var(name_z, lit_5))

C18_DeclaredSymbolsBound ==
    /\ \A t \in {repl_scope_id, global_scope_id} :
           \A id \in variables_of(scopes[t]) : bound(id)
    /\ (code = name_z /\ history # <<>>) => result.tag # "Panic"

(***************************************************************************)
(* C19: in every state, the value a variable symbol is bound to has the    *)
(* payload kind of the symbol's declared type (int: integer, truth:        *)
(* boolean, string: text), and for a conditional that passes analysis the  *)
(* value the interpreter obtains for its condition is a boolean.           *)
(***************************************************************************)
\* The payload kind the values of a primitive type have.
payload_kind(type_id) ==
    CASE type_id = INT_TYPE.symbol_id -> "Int"
      [] type_id = TRUTH_TYPE.symbol_id -> "Bool"
      [] type_id = TEXT_TYPE.symbol_id -> "Text"
      [] OTHER -> "Any"

\* The payload of the value the symbol is bound to.
bound_content(id) == value_table[symbol_to_value[id]].content

typed_as_declared(symbol) ==
    \/ payload_kind(symbol.variant.type_id) = "Any"
    \/ bound_content(symbol.symbol_id).kind = payload_kind(symbol.variant.type_id)

PrintIfX == src_if(name_x, src_print(lit_1))

Conditionals == {PrintIfX, DeclaredInSkippedBody, DeclaredInBlock}

\* The analysis eval makes of a text that is one statement.
analyzed_statement(m, c) ==
    analyze(push_scope(m, m.repl_scope_id), Head(parse_code(c).nodes))

\* What the interpreter obtained is a boolean, when it obtained a value.
obtains_truth(r) ==
    (r.tag = "Ok" /\ r.value.has) => r.value.value.content.kind = "Bool"

\* The If arm's interpretation of the condition of an analyzed conditional.
condition_obtains_truth(analyzed) ==
    (analyzed.tag = "Ok") => obtains_truth(interpret(analyzed.m, analyzed.node.condition))

C19_AnalysisTypesHoldAtRunTime ==
    /\ \A t \in DOMAIN scopes :
           \A id \in variables_of(scopes[t]) :
               bound(id) => typed_as_declared(scopes[t].symbols[id])
    /\ alive => \A c \in Conditionals :
                    condition_obtains_truth(analyzed_statement(M, c))

\* The conditional on the truth variable x was analyzed and ran its body,
\* with an integer variable bound in some scope.
C19_Witness ==
    /\ code = PrintIfX
    /\ result.tag = "Ok"
    /\ stdout # <<>>
    /\ declared_as(name_x, TRUTH_TYPE)
    /\ bound_content(declared(name_x).symbol_id) = PrimitiveValue_Bool(TRUE)
    /\ \E t \in DOMAIN scopes :
           \E id \in variables_of(scopes[t]) :
               /\ scopes[t].symbols[id].variant.type_id = INT_TYPE.symbol_id
               /\ bound(id)
               /\ bound_content(id).kind = "Int"

(***************************************************************************)
(* C20: in every state the scopes form a tree: the global scope is the     *)
(* only scope without a parent, every other scope has a parent that is in  *)
(* the scope map, and the parent chain from every scope ends at the global *)
(* scope without a cycle; and no step removes a scope or changes the       *)
(* parent of one.                                                          *)
(***************************************************************************)
\* The parent chain from the scope t reaches the global scope in at most n
\* steps, through scopes of the map alone.
RECURSIVE ends_at_root(_, _)
ends_at_root(t, n) ==
    IF t = global_scope_id
    THEN TRUE
    ELSE IF n = 0 \/ t \notin DOMAIN scopes
    THEN FALSE
    ELSE ends_at_root(scopes[t].parent, n - 1)

scopes_form_a_tree ==
    /\ global_scope_id \in DOMAIN scopes
    /\ scopes[global_scope_id].parent = NoUuid
    /\ \A t \in DOMAIN scopes \ {global_scope_id} :
           /\ scopes[t].parent # NoUuid
           /\ scopes[t].parent \in DOMAIN scopes
           /\ ends_at_root(t, Cardinality(DOMAIN scopes))

scopes_kept ==
    \A t \in DOMAIN scopes :
        /\ t \in DOMAIN scopes'
        /\ scopes'[t].parent = scopes[t].parent

\* Every step starts and ends in a tree and keeps the scopes it started with.
C20_ScopesFormATree ==
    [][scopes_form_a_tree /\ scopes_form_a_tree' /\ scopes_kept]_vars

NestedBlocks == src_block(src_block(name_z))

\* A block inside a block inside the REPL scope has been analyzed; the error
\* in it has left the inner block's scope current, and its scope stays in
\* the map in the calls that follow.
C20_Witness ==
    /\ Len(history) >= 2
    /\ previous.code = NestedBlocks
    /\ \E t \in DOMAIN scopes :
           /\ scopes[t].parent \notin {NoUuid, repl_scope_id, global_scope_id}
           /\ scopes[scopes[t].parent].parent = repl_scope_id

(***************************************************************************)
(* C21: the interpreter runs the statements of an analyzed block in the    *)
(* scope the analyzer minted for the block and recorded in the node, in    *)
(* source order, and a block that completes without error leaves current   *)
(* the scope that was current before it.                                   *)
(***************************************************************************)
PrintTwice == src_block(src_then(src_print(lit_1), src_print(lit_2)))
BlockInBlock == src_block(src_block(src_var(name_z, lit_5)))

BlockTexts == {ShadowingBlock, PrintTwice, BlockInBlock, src_block(src_var(name_z, lit_5))}

\* The payloads printed since the output was `before`.
printed_since(before, m) ==
    [i \in 1..(Len(m.stdout) - Len(before)) |->
        m.stdout[Len(before) + i].value.content]

\* What each block of BlockTexts prints.
BlockPrints(B) ==
    CASE B = ShadowingBlock -> <<PrimitiveValue_Int(2)>>
      [] B = PrintTwice -> <<PrimitiveValue_Int(1), PrimitiveValue_Int(2)>>
      [] OTHER -> <<>>

\* The variable symbols of the scope that have no binding.
unbound_in(m, scope_id) ==
    {id \in DOMAIN m.scopes[scope_id].symbols :
        /\ m.scopes[scope_id].symbols[id].variant.kind = "Variable"
        /\ id \notin DOMAIN m.symbol_to_value}

\* A block that completes leaves the scope current.
scope_restored(r, scope_id) == (r.tag = "Ok") => r.m.current_scope_id = scope_id

\* The whole block: it completes, its declarations found their symbols in
\* the block's scope, its prints came in order, and the scope is restored.
block_completes(r, before, scope_id, prints) ==
    /\ r.tag = "Ok"
    /\ r.m.current_scope_id = before.current_scope_id
    /\ unbound_in(r.m, scope_id) = {}
    /\ printed_since(before.stdout, r.m) = prints

block_reenters_scope(analyzed, prints) ==
    (analyzed.tag = "Ok")
        => /\ analyzed.node.kind = "Block"
           /\ analyzed.node.scope_id \notin DOMAIN scopes
           /\ analyzed.node.scope_id \in DOMAIN analyzed.m.scopes
           /\ \A k \in 1..Len(analyzed.node.nodes) :
                  scope_restored(
                      interpret(analyzed.m,
                                Sem_Block(SubSeq(analyzed.node.nodes, 1, k),
                                          analyzed.node.scope_id)),
                      analyzed.m.current_scope_id)
           /\ block_completes(interpret(analyzed.m, analyzed.node), analyzed.m,
                              analyzed.node.scope_id, prints)

C21_BlockRunsInItsScope ==
    alive => \A B \in BlockTexts :
                 block_reenters_scope(analyzed_statement(M, B), BlockPrints(B))

\* The block `{ var x = 2; :x }` has been evaluated: x is bound in the
\* block's scope, 2 was printed, and the call left the REPL scope.
C21_Witness ==
    /\ code = ShadowingBlock
    /\ result.tag = "Ok"
    /\ stdout # <<>>
    /\ stdout[Len(stdout)].value.content = PrimitiveValue_Int(2)
    /\ current_scope_id = global_scope_id
    /\ \E t \in DOMAIN scopes :
           /\ scopes[t].parent = repl_scope_id
           /\ symbols_named(scopes[t], name_x) # {}
           /\ unbound_in(M, t) = {}

(***************************************************************************)
(* C22: the text of every number token, and of every name token, is one    *)
(* maximal run of digits, or of letters, of the source: characters that    *)
(* another character separates in the source, a newline included, are      *)
(* never in one token.                                                     *)
(***************************************************************************)
\* The text is in the source from position i on, as a run of characters of
\* the class that ends at both sides.
maximal_run_at(source, i, chars, class) ==
    /\ i + Len(chars) - 1 <= Len(source)
    /\ \A k \in 1..Len(chars) : source[i + k - 1] = chars[k] /\ chars[k] \in class
    /\ (i > 1) => source[i - 1] \notin class
    /\ (i + Len(chars) <= Len(source)) => source[i + Len(chars)] \notin class

maximal_run(source, chars, class) ==
    /\ chars # <<>>
    /\ \E i \in 1..Len(source) : maximal_run_at(source, i, chars, class)

C22_TokensAreMaximalRuns ==
    (calls = 1 /\ result.tag = "Ok")
        => \A i \in 1..Len(result.tokens) :
               /\ (result.tokens[i].token_type = "Number")
                      => maximal_run(code, result.tokens[i].value, Digits)
               /\ (result.tokens[i].token_type = "Name")
                      => maximal_run(code, result.tokens[i].value, Letters)

(***************************************************************************)
(* C26: every token carries the position of its first character: the      *)
(* 1-based number of the line it starts on and the 0-based offset of the   *)
(* character in that line, the tokens after a newline included.            *)
(***************************************************************************)
\* The 0-based positions where Lexer::next starts each token it returns.
RECURSIVE token_starts(_, _)
token_starts(lx, starts) ==
    LET r == Lexer_next(lx)
    IN  IF r.tag = "Some"
        THEN token_starts(r.lexer, Append(starts, ignore_whitespace(lx).position))
        ELSE starts

\* The newlines of the source before the 0-based position.
newlines_before(source, position) == {k \in 1..position : source[k] = NL}

line_of(source, position) == 1 + Cardinality(newlines_before(source, position))

column_of(source, position) ==
    LET before == newlines_before(source, position)
    IN  IF before = {}
        THEN position
        ELSE position - (CHOOSE k \in before : \A other \in before : other <= k)

C26_TokensRecordPosition ==
    (calls = 1 /\ result.tag = "Ok")
        => \A i \in 1..Len(result.tokens) :
               /\ result.tokens[i].line =
                      line_of(code, token_starts(Lexer_new(code), <<>>)[i])
               /\ result.tokens[i].column =
                      column_of(code, token_starts(Lexer_new(code), <<>>)[i])

(***************************************************************************)
(* C23: for a text whose tokens end where the grammar asks for another     *)
(* token, the parser returns the error of an unexpected end of input and   *)
(* the process goes on.                                                    *)
(***************************************************************************)
C23_TruncatedInputIsAnError ==
    (calls = 1 /\ code \in TruncatedTexts)
        => /\ alive
           /\ result.tag = "Err"
           /\ result.error.kind = "SuddenEndOfFile"

(***************************************************************************)
(* C29: a conditional, one statement separator and another statement parse *)
(* into two statements, the conditional and the other statement, with a    *)
(* block or a single statement as the body.                                *)
(***************************************************************************)
C29_ConditionalNeedsOneSeparator ==
    (calls = 1 /\ code \in ConditionalThenStatement)
        => /\ result.tag = "Ok"
           /\ Len(result.nodes) = 2
           /\ result.nodes[1].kind = "If"
           /\ result.nodes[2].kind = "DebugPrint"

(***************************************************************************)
(* C24: the analysis of a call of a function-typed callee fails when the   *)
(* number of arguments differs from the number of parameter types;         *)
(* otherwise it takes the arguments in order and fails with a type         *)
(* mismatch that names the parameter type and the argument type at the     *)
(* first argument whose type differs; when all match, the type of the call *)
(* is the return type of the function type.                                *)
(***************************************************************************)
\* The parameter types and the return type each callee was bound with.
ParameterTypes(callee) ==
    CASE callee = name_f -> <<>>
      [] callee = name_g -> <<INT_TYPE, TRUTH_TYPE>>
      [] callee = name_h -> <<INT_TYPE>>

ReturnType(callee) == IF callee = name_g THEN TEXT_TYPE.symbol_id ELSE NoUuid

\* The type of each argument text; name_z is declared nowhere.
ArgumentType(chars) ==
    CASE chars = lit_1 -> INT_TYPE
      [] chars = lit_true -> TRUTH_TYPE
      [] chars = lit_text -> TEXT_TYPE
      [] OTHER -> NoSymbol

\* The arguments that cannot be taken: undeclared, or of another type.
failing_arguments(call) ==
    {i \in 1..(Len(call) - 1) : ArgumentType(call[i + 1]) # ParameterTypes(Head(call))[i]}

first_of(indices) == CHOOSE i \in indices : \A other \in indices : i <= other

expected_of_call(call) ==
    IF Len(call) - 1 # Len(ParameterTypes(Head(call)))
    THEN [tag |-> "Err", type_id |-> NoUuid,
          error |-> Error("IncorrectNumberOfArguments", <<>>, <<>>)]
    ELSE IF failing_arguments(call) = {}
    THEN [tag |-> "Ok", type_id |-> ReturnType(Head(call)), error |-> NoError]
    ELSE IF ArgumentType(call[first_of(failing_arguments(call)) + 1]) = NoSymbol
    THEN [tag |-> "Err", type_id |-> NoUuid,
          error |-> Error("VariableNotFound",
                          call[first_of(failing_arguments(call)) + 1], <<>>)]
    ELSE [tag |-> "Err", type_id |-> NoUuid,
          error |-> Error("TypeMismatch",
                          ParameterTypes(Head(call))[first_of(failing_arguments(call))].name,
                          ArgumentType(call[first_of(failing_arguments(call)) + 1]).name)]

C24_CallArgumentsChecked ==
    (calls = 1)
        => /\ result.tag = expected_of_call(code).tag
           /\ result.type_id = expected_of_call(code).type_id
           /\ result.error = expected_of_call(code).error
           /\ (result.tag = "Ok") => Len(result.node.args) = Len(code) - 1

\* g was called with an int and a string: the second argument is refused.
C24_Witness ==
    /\ calls = 1
    /\ code = <<name_g, lit_1, lit_text>>
    /\ result.tag = "Err"
    /\ result.error = Error("TypeMismatch", TRUTH_TYPE.name, TEXT_TYPE.name)

(***************************************************************************)
(* C25: the name built for a function type is the names of the argument    *)
(* types separated by commas, a colon and the name of the return type,     *)
(* between angle brackets: `<:>` for the type bind_void_function makes     *)
(* (no arguments, no return), `<int,truth:>` for two arguments and no      *)
(* return.                                                                 *)
(***************************************************************************)
\* The function type symbols of the global scope.
function_types ==
    {id \in DOMAIN scopes[global_scope_id].symbols :
        scopes[global_scope_id].symbols[id].variant.kind = "FunctionType"}

C25_TypeNameHasColon ==
    native_bound(name_f)
        => /\ \A id \in function_types :
                  scopes[global_scope_id].symbols[id].name = <<"<", ":", ">">>
           /\ construct_type_name(NoUuid, <<INT_TYPE.symbol_id, TRUTH_TYPE.symbol_id>>, M)
                  = <<"<">> \o INT_TYPE.name \o <<",">> \o TRUTH_TYPE.name \o <<":", ">">>

(***************************************************************************)
(* C27: in every state reached by eval calls and bindings of native        *)
(* functions, no scope holds two symbols of one name.                      *)
(***************************************************************************)
C27_NamesUniquePerScope ==
    \A t \in DOMAIN scopes :
        \A id \in DOMAIN scopes[t].symbols :
            symbols_named(scopes[t], scopes[t].symbols[id].name) = {id}

(***************************************************************************)
(* C28: when eval of a text succeeds, every token of the text was consumed *)
(* into the statements it evaluated; a `}` that closes no block at the top *)
(* level does not make eval succeed without the statements after it.       *)
(***************************************************************************)
\* The parser took every token.
consumed_all(parsed, tokens) ==
    parsed.tag = "Ok" /\ parsed.parser.pos = Len(tokens.tokens)

succeeds(r) == r.tag = "Ok"

C28_NoInputDropped ==
    (calls = 1 /\ succeeds(eval(M, code)))
        => consumed_all(parse_code(code), lex_code(code))

(***************************************************************************)
(* C30: a statement the analyzer rejects declares nothing: after the eval  *)
(* of `if 1 var z = 5`, which fails because the condition is no truth, the *)
(* symbols of the REPL scope and of the global scope are those from before *)
(* and z is still undeclared.                                              *)
(***************************************************************************)
DeclaredUnderBadCondition == src_if(lit_1, src_var(name_z, lit_5))

C30_RejectedStatementDeclaresNothing ==
    [][(evaluates(DeclaredUnderBadCondition) /\ result'.tag = "Err")
           => /\ scopes'[repl_scope_id].symbols = scopes[repl_scope_id].symbols
              /\ scopes'[global_scope_id].symbols = scopes[global_scope_id].symbols
              /\ undeclared(name_z) => undeclared(name_z)']_vars
====
